---- MODULE Spec2Model ----
(***************************************************************************)
(* Verification model of the chunking and vector-index subsystem of the    *)
(* PDF RAG backend:                                                        *)
(*   backend/app/services/pdf_processor.py     (PDFProcessor)              *)
(*   backend/app/services/embedding_service.py (FAISSIndexManager)         *)
(*                                                                         *)
(* Specifications                                                          *)
(*   SpecChunk  PDFProcessor.chunk_text, one action per loop iteration     *)
(*   Spec       FAISSIndexManager, one action per call (calls in sequence)  *)
(*   SpecCrash  FAISSIndexManager, one action per statement, one worker,    *)
(*              the process may die at any statement                       *)
(*   SpecConc   FAISSIndexManager, one action per statement, two request    *)
(*              workers sharing the manager of routes.py                   *)
(***************************************************************************)
EXTENDS Integers, Sequences, FiniteSets, TLC

(***************************************************************************)
(* Bounds of the model                                                     *)
(***************************************************************************)
\* longest raw text handed to chunk_text in the exhaustive family
MaxLen == 4
\* largest chunk_size / min_chunk_size of the exhaustive configurations
MaxChunkSize == 3
\* largest chunk_overlap of the exhaustive configurations
MaxOverlap == 2
\* length of the text of the three-chunk scenario
ScenarioLen == 2400
\* dimension of the embedding vectors of the model
Dimension == 2
\* largest number of chunk ids, embedding rows or metadata records in one call
MaxBatch == 2
\* number of FAISSIndexManager calls in one behaviour
MaxOps == 4
\* largest k passed to search
MaxK == 3
\* number of calls in one behaviour of SpecCrash
MaxCrashCalls == 5
\* number of calls in one behaviour of SpecConc
MaxConcCalls == 4
\* calls made in SpecMulti, on the indices of two documents
MaxMultiCalls == 3

MaxFrameCalls == 3

MaxRequests == 4

MaxSvcThreads == 2

MaxSvcCalls == 4
\* largest nlist a GlobalIndexManager is constructed with
MaxNList == 2
\* number of calls in one behaviour of SpecGlobal
MaxGlobalCalls == 4

(***************************************************************************)
(* Program constants                                                       *)
(***************************************************************************)
DefaultChunkSize == 1000
DefaultChunkOverlap == 200
DefaultMinChunkSize == 100
LookAhead == 200
DefaultNList == 100
MaxNProbe == 10

DefaultK == 5

VARIABLES
    \* ---- PDFProcessor.chunk_text ----
    text,            \* the local `text` (raw on entry, normalized after line 98)
    page_texts,      \* the page table argument
    chunk_size,      \* self.chunk_size
    chunk_overlap,   \* self.chunk_overlap
    min_chunk_size,  \* self.min_chunk_size
    start,           \* the local `start`
    chunk_index,     \* the local `chunk_index`
    chunks,          \* the local `chunks`
    cpc,             \* position in chunk_text: "entry", "loop", "done", "raised"
    prev_start,      \* history: `start` at the beginning of the last iteration, -1 before the first
    dropped,         \* history: the windows <<start, end>> that line 130 did not keep
    \* ---- FAISSIndexManager ----
    indices,         \* self.indices: document_id -> index
    metadata,        \* self.metadata: document_id -> (ordinal -> entry)
    disk,            \* files under self.index_path: file name -> content
    next_cid,        \* next chunk id the caller's database hands out
    nops,            \* number of calls made so far
    last,            \* history: the last call, its arguments' shape and its outcome
    saved,           \* history: document_id -> the (index, metadata) pairs of completed save_index calls
    \* ---- request workers inside FAISSIndexManager calls ----
    wpc,             \* worker -> the statement it is at ("idle" between calls)
    wl,              \* worker -> the locals of its call
    hist,            \* history: the add_embeddings calls begun, and whether any other call was
    \* ---- GlobalIndexManager ----
    nlist,           \* self.nlist
    global_index,    \* self.global_index (None, or the IVF index)
    global_metadata, \* self.global_metadata: ordinal -> entry
    is_trained,      \* self.is_trained
    gcid,            \* next chunk id the caller hands to add_to_global_index
    gops,            \* number of calls made on the global index so far
    glast,           \* history: the last call on the global index, what it was given and what it found
    offered,         \* history: vectors offered by add_to_global_index calls made while is_trained was false
    \* ---- api/routes.py: the request handlers and rag_service ----
    rag_indices,     \* rag_service.index_manager.indices
    rag_metadata,    \* rag_service.index_manager.metadata
    documents,       \* the Document rows: document id -> "absent", "completed" or "deleted"
    rops,            \* number of requests handled so far
    qlast,           \* history: the last query_document request and what its search was made on
    \* ---- EmbeddingService: the class attributes and the threads using it ----
    svc,             \* EmbeddingService._instance and its attributes
    svc_lock,        \* EmbeddingService._lock: 0 when free, else the thread holding it
    spc,             \* thread -> the statement it is at
    scalls,          \* number of constructions and uses begun so far
    shist            \* history: instances created, model loads, and resets of a loaded model

chunkVars == <<text, page_texts, chunk_size, chunk_overlap, min_chunk_size,
               start, chunk_index, chunks, cpc, prev_start, dropped>>

mgrVars == <<indices, metadata, disk, next_cid, nops, last, saved>>

workerVars == <<wpc, wl, hist>>

globalVars == <<nlist, global_index, global_metadata, is_trained, gcid, gops, glast, offered>>

routeVars == <<rag_indices, rag_metadata, documents, rops, qlast>>

svcVars == <<svc, svc_lock, spc, scalls, shist>>

vars == <<text, page_texts, chunk_size, chunk_overlap, min_chunk_size,
          start, chunk_index, chunks, cpc, prev_start, dropped,
          indices, metadata, disk, next_cid, nops, last, saved,
          wpc, wl, hist,
          nlist, global_index, global_metadata, is_trained, gcid, gops, glast, offered,
          rag_indices, rag_metadata, documents, rops, qlast,
          svc, svc_lock, spc, scalls, shist>>

\* what a step of chunk_text leaves alone
outsideChunk == <<mgrVars, workerVars, globalVars, routeVars, svcVars>>

\* what a whole call on the index manager leaves alone
outsideMgr == <<chunkVars, workerVars, globalVars, routeVars, svcVars>>

\* what a statement of a worker leaves alone
outsideWorkers == <<chunkVars, last, globalVars, routeVars, svcVars>>

\* what a call on the global index leaves alone
outsideGlobal == <<chunkVars, mgrVars, workerVars, routeVars, svcVars>>

\* what a request handler leaves alone
outsideRoutes == <<chunkVars, workerVars, globalVars, svcVars>>

\* what a statement of EmbeddingService leaves alone
outsideSvc == <<chunkVars, mgrVars, workerVars, globalVars, routeVars>>

(***************************************************************************)
(* Generic helpers                                                         *)
(***************************************************************************)
Min(a, b) == IF a < b THEN a ELSE b

Max(a, b) == IF a > b THEN a ELSE b

SetMin(S) == CHOOSE x \in S : \A y \in S : x <= y

SetMax(S) == CHOOSE x \in S : \A y \in S : x >= y

\* all sequences over S of length lo..hi
SeqsOf(S, lo, hi) == UNION {[1..n -> S] : n \in lo..hi}

(***************************************************************************)
(* Python string primitives used by pdf_processor.py                       *)
(***************************************************************************)
NUL == "NUL"

IsSpace(c) == c \in {" ", "\n"}

\* t[a:b] with Python's treatment of negative and out-of-range bounds
PySlice(t, a, b) ==
    LET n  == Len(t)
        lo == IF a < 0 THEN Max(a + n, 0) ELSE Min(a, n)
        hi == IF b < 0 THEN Max(b + n, 0) ELSE Min(b, n)
    IN  IF hi <= lo THEN <<>> ELSE SubSeq(t, lo + 1, hi)

\* t[j] raises IndexError outside -len..len-1
PyIndexRaises(t, j) == j < 0 - Len(t) \/ j >= Len(t)

PyChar(t, j) == t[(IF j < 0 THEN j + Len(t) ELSE j) + 1]

\* str.strip()
Strip(t) ==
    LET ix == {i \in 1..Len(t) : ~IsSpace(t[i])}
    IN  IF ix = {} THEN <<>> ELSE SubSeq(t, SetMin(ix), SetMax(ix))

(***************************************************************************)
(* PDFProcessor helpers                                                    *)
(***************************************************************************)
\* re.sub(r'\s+', ' ', text): every maximal run of whitespace becomes one ' '
CollapseWhitespace(t) ==
    LET marked == [i \in 1..Len(t) |->
                     [c    |-> IF IsSpace(t[i]) THEN " " ELSE t[i],
                      keep |-> ~(IsSpace(t[i]) /\ i > 1 /\ IsSpace(t[i - 1]))]]
        kept   == SelectSeq(marked, LAMBDA m : m.keep)
    IN  [i \in 1..Len(kept) |-> kept[i].c]

\* text.replace('\x00', '')
RemoveNul(t) == SelectSeq(t, LAMBDA c : c # NUL)

\* _clean_text: collapse whitespace, then drop NUL, then strip; NFKC
\* normalization leaves every character of the model's alphabet unchanged
CleanText(t) == Strip(RemoveNul(CollapseWhitespace(t)))

\* _estimate_tokens
EstimateTokens(t) == Len(t) \div 4

\* search_range of _find_break_point
SearchRange(t, position) == Min(LookAhead, Len(t) - position)

ParagraphHits(t, position) ==
    {i \in 0..(SearchRange(t, position) - 1) :
        /\ position + i < Len(t)
        /\ PySlice(t, position + i, position + i + 2) = <<"\n", "\n">>}

SentenceHits(t, position) ==
    {i \in 0..(SearchRange(t, position) - 1) :
        /\ position + i < Len(t)
        /\ ~PyIndexRaises(t, position + i)
        /\ PyChar(t, position + i) \in {".", "!", "?"}
        /\ (position + i + 1 >= Len(t) \/ PyChar(t, position + i + 1) = " ")}

WordHits(t, position) ==
    {i \in 0..(SearchRange(t, position) - 1) :
        /\ position + i < Len(t)
        /\ ~PyIndexRaises(t, position + i)
        /\ PyChar(t, position + i) = " "}

\* _find_break_point raises IndexError when the sentence loop indexes the
\* text below -len(text); the paragraph loop only slices and cannot raise
FindBreakPointRaises(t, position) ==
    /\ ParagraphHits(t, position) = {}
    /\ \E i \in 0..(SearchRange(t, position) - 1) :
          /\ position + i < Len(t)
          /\ PyIndexRaises(t, position + i)
          /\ \A j \in SentenceHits(t, position) : j > i

\* _find_break_point, when it returns
FindBreakPoint(t, position) ==
    IF ParagraphHits(t, position) # {}
    THEN position + SetMin(ParagraphHits(t, position)) + 2
    ELSE IF SentenceHits(t, position) # {}
    THEN position + SetMin(SentenceHits(t, position)) + 1
    ELSE IF WordHits(t, position) # {}
    THEN position + SetMin(WordHits(t, position)) + 1
    ELSE position

\* _get_page_for_position with >= in place of > on line 216
GetPageForPositionAtOrAfter(char_position, pages) ==
    LET hits == {i \in 1..Len(pages) :
                    IF i < Len(pages) THEN pages[i + 1].start_char >= char_position
                                      ELSE TRUE}
    IN  IF hits = {} THEN 1 ELSE pages[SetMin(hits)].page_number

\* _get_page_for_position
GetPageForPosition(char_position, pages) ==
    LET hits == {i \in 1..Len(pages) :
                    IF i < Len(pages) THEN pages[i + 1].start_char > char_position
                                      ELSE TRUE}
    IN  IF hits = {} THEN 1 ELSE pages[SetMin(hits)].page_number

PDFChunk(content, page, idx, s, e) ==
    [content |-> content, page_number |-> page, chunk_index |-> idx,
     start_char |-> s, end_char |-> e, token_count |-> EstimateTokens(content)]

(***************************************************************************)
(* Inputs of chunk_text                                                    *)
(***************************************************************************)
Alphabet == {"a", ".", " "}

\* raw texts with characters that _clean_text rewrites or removes
SpecialTexts ==
    { <<"a", "\n", "\n", "a">>, <<"a", " ", NUL, " ", "a">>, <<NUL, "a", "a">>,
      <<" ", "\n", "a", ".", "\n">>, <<"a", NUL, NUL>>, <<"\n">> }

SmallTexts == SeqsOf(Alphabet, 0, MaxLen) \cup SpecialTexts

PageTables ==
    { <<>>,
      <<[page_number |-> 1, start_char |-> 0]>>,
      <<[page_number |-> 1, start_char |-> 0], [page_number |-> 2, start_char |-> 2]>>,
      <<[page_number |-> 1, start_char |-> 0], [page_number |-> 2, start_char |-> 1],
        [page_number |-> 3, start_char |-> 2]>> }

\* texts of the scenario: words of w characters, a full stop every s words
ScenarioText(w, s) ==
    [i \in 1..ScenarioLen |->
        IF i % w = 0 /\ i < ScenarioLen THEN " "
        ELSE IF (i + 1) % (w * s) = 0 \/ i = ScenarioLen THEN "."
        ELSE "a"]

ScenarioTexts ==
    {ScenarioText(w, s) : w \in {7, 13, 150, 420, 3000}, s \in {1, 4}}

(***************************************************************************)
(* PDFProcessor.chunk_text                                                 *)
(***************************************************************************)
\* a PDFProcessor with its configuration and the arguments of one call
ChunkCall ==
    /\ \/ /\ text \in SmallTexts
          /\ chunk_size \in 1..MaxChunkSize
          /\ chunk_overlap \in 0..MaxOverlap
          /\ min_chunk_size \in 1..MaxChunkSize
          /\ page_texts \in PageTables
       \/ /\ text \in ScenarioTexts
          /\ chunk_size = DefaultChunkSize
          /\ chunk_overlap = DefaultChunkOverlap
          /\ min_chunk_size = DefaultMinChunkSize
          /\ page_texts = <<[page_number |-> 1, start_char |-> 0]>>
    /\ start = 0
    /\ chunk_index = 0
    /\ chunks = <<>>
    /\ cpc = "entry"
    /\ prev_start = -1
    /\ dropped = {}

\* lines 95-113: normalize, short-document return, loop initialisation
ChunkEnter ==
    /\ cpc = "entry"
    /\ LET t == CleanText(text)
       IN  /\ text' = t
           /\ IF Len(t) < min_chunk_size
              THEN /\ chunks' = <<PDFChunk(t, 1, 0, 0, Len(t))>>
                   /\ cpc' = "done"
              ELSE /\ chunks' = <<>>
                   /\ cpc' = "loop"
    /\ start' = 0
    /\ chunk_index' = 0
    /\ UNCHANGED <<page_texts, chunk_size, chunk_overlap, min_chunk_size, prev_start,
                   dropped>>
    /\ UNCHANGED outsideChunk

\* the window loop without the guard of lines 146-147
ChunkIterateNoGuard ==
    /\ cpc = "loop"
    /\ start < Len(text)
    /\ LET end0     == start + chunk_size
           useBreak == end0 < Len(text)
       IN  IF useBreak /\ FindBreakPointRaises(text, end0)
           THEN /\ cpc' = "raised"
                /\ UNCHANGED <<start, chunk_index, chunks, prev_start, dropped>>
           ELSE LET bp      == FindBreakPoint(text, end0)
                    end     == IF useBreak
                               THEN (IF bp > start THEN bp ELSE end0)
                               ELSE Len(text)
                    content == Strip(PySlice(text, start, end))
                    keep    == Len(content) >= min_chunk_size
                    chunks1 == IF keep
                               THEN Append(chunks,
                                        PDFChunk(content,
                                                 GetPageForPosition(start, page_texts),
                                                 chunk_index, start, end))
                               ELSE chunks
                    moved   == end - chunk_overlap
                    \* `start <= chunks[-1].start_char if chunks else 0`
                    forced  == IF chunks1 # <<>>
                               THEN moved <= chunks1[Len(chunks1)].start_char
                               ELSE FALSE
                IN  /\ chunks' = chunks1
                    /\ chunk_index' = IF keep THEN chunk_index + 1 ELSE chunk_index
                    /\ start' = moved
                    /\ prev_start' = start
                    /\ dropped' = IF keep THEN dropped ELSE dropped \cup {<<start, end>>}
                    /\ cpc' = "loop"
    /\ UNCHANGED <<text, page_texts, chunk_size, chunk_overlap, min_chunk_size>>
    /\ UNCHANGED outsideChunk

\* the window loop stepping back one character more than chunk_overlap
ChunkIterateStepsBackFurther ==
    /\ cpc = "loop"
    /\ start < Len(text)
    /\ LET end0     == start + chunk_size
           useBreak == end0 < Len(text)
       IN  IF useBreak /\ FindBreakPointRaises(text, end0)
           THEN /\ cpc' = "raised"
                /\ UNCHANGED <<start, chunk_index, chunks, prev_start, dropped>>
           ELSE LET bp      == FindBreakPoint(text, end0)
                    end     == IF useBreak
                               THEN (IF bp > start THEN bp ELSE end0)
                               ELSE Len(text)
                    content == Strip(PySlice(text, start, end))
                    keep    == Len(content) >= min_chunk_size
                    chunks1 == IF keep
                               THEN Append(chunks,
                                        PDFChunk(content,
                                                 GetPageForPosition(start, page_texts),
                                                 chunk_index, start, end))
                               ELSE chunks
                    moved   == end - chunk_overlap - 1
                    \* `start <= chunks[-1].start_char if chunks else 0`
                    forced  == IF chunks1 # <<>>
                               THEN moved <= chunks1[Len(chunks1)].start_char
                               ELSE FALSE
                IN  /\ chunks' = chunks1
                    /\ chunk_index' = IF keep THEN chunk_index + 1 ELSE chunk_index
                    /\ start' = IF forced THEN end ELSE moved
                    /\ prev_start' = start
                    /\ dropped' = IF keep THEN dropped ELSE dropped \cup {<<start, end>>}
                    /\ cpc' = "loop"
    /\ UNCHANGED <<text, page_texts, chunk_size, chunk_overlap, min_chunk_size>>
    /\ UNCHANGED outsideChunk

\* lines 115-147: one iteration of the window loop
ChunkIterate ==
    /\ cpc = "loop"
    /\ start < Len(text)
    /\ LET end0     == start + chunk_size
           useBreak == end0 < Len(text)
       IN  IF useBreak /\ FindBreakPointRaises(text, end0)
           THEN /\ cpc' = "raised"
                /\ UNCHANGED <<start, chunk_index, chunks, prev_start, dropped>>
           ELSE LET bp      == FindBreakPoint(text, end0)
                    end     == IF useBreak
                               THEN (IF bp > start THEN bp ELSE end0)
                               ELSE Len(text)
                    content == Strip(PySlice(text, start, end))
                    keep    == Len(content) >= min_chunk_size
                    chunks1 == IF keep
                               THEN Append(chunks,
                                        PDFChunk(content,
                                                 GetPageForPosition(start, page_texts),
                                                 chunk_index, start, end))
                               ELSE chunks
                    moved   == end - chunk_overlap
                    \* `start <= chunks[-1].start_char if chunks else 0`
                    forced  == IF chunks1 # <<>>
                               THEN moved <= chunks1[Len(chunks1)].start_char
                               ELSE FALSE
                IN  /\ chunks' = chunks1
                    /\ chunk_index' = IF keep THEN chunk_index + 1 ELSE chunk_index
                    /\ start' = IF forced THEN end ELSE moved
                    /\ prev_start' = start
                    /\ dropped' = IF keep THEN dropped ELSE dropped \cup {<<start, end>>}
                    /\ cpc' = "loop"
    /\ UNCHANGED <<text, page_texts, chunk_size, chunk_overlap, min_chunk_size>>
    /\ UNCHANGED outsideChunk

\* lines 115, 149-150: the loop condition fails and chunk_text returns
ChunkReturn ==
    /\ cpc = "loop"
    /\ start >= Len(text)
    /\ cpc' = "done"
    /\ UNCHANGED <<text, page_texts, chunk_size, chunk_overlap, min_chunk_size,
                   start, chunk_index, chunks, prev_start, dropped>>
    /\ UNCHANGED outsideChunk

NextChunk == ChunkEnter \/ ChunkIterate \/ ChunkReturn

\* no chunk_text call in progress
ChunkIdle ==
    /\ text = <<>>
    /\ page_texts = <<>>
    /\ chunk_size = DefaultChunkSize
    /\ chunk_overlap = DefaultChunkOverlap
    /\ min_chunk_size = DefaultMinChunkSize
    /\ start = 0
    /\ chunk_index = 0
    /\ chunks = <<>>
    /\ cpc = "idle"
    /\ prev_start = -1
    /\ dropped = {}


(***************************************************************************)
(* Dictionaries                                                            *)
(***************************************************************************)
EmptyMap == [x \in {} |-> 0]

Put(f, k, v) == [x \in (DOMAIN f) \cup {k} |-> IF x = k THEN v ELSE f[x]]

Del(f, k) == [x \in (DOMAIN f) \ {k} |-> f[x]]

\* dict.get(k, {})
GetOrEmpty(f, k) == IF k \in DOMAIN f THEN f[k] ELSE EmptyMap

\* the keys of a dictionary of ordinals, ascending
SortedKeys(f) ==
    LET ks == DOMAIN f
    IN  [i \in 1..Cardinality(ks) |->
            CHOOSE k \in ks : Cardinality({j \in ks : j < k}) = i - 1]

(***************************************************************************)
(* Vectors, embeddings and the FAISS index (IndexIDMap over IndexFlatIP)   *)
(***************************************************************************)
Docs == {"A", "B"}

\* the documents the calls of Spec are made on
SpecDocs == {"A"}

UnitVec(i) == [j \in 1..Dimension |-> IF j = i THEN 1 ELSE 0]

\* a vector of another dimension
WrongVec == [j \in 1..(Dimension + 1) |-> IF j = 1 THEN 1 ELSE 0]

Queries == {"q1", "q2"}

\* EmbeddingService.generate_embedding: a fixed function of the text, unit
\* vectors of dimension Dimension
GenerateEmbedding(t) ==
    IF t \in Queries
    THEN (IF t = "q1" THEN UnitVec(1) ELSE UnitVec(2))
    ELSE UnitVec(1 + (t[2] % 2))

\* the content of the chunk with database key cid
ChunkContent(cid) == <<"content", cid>>

\* the chunk ids a caller passes: nc consecutive database keys
ChunkIdsFrom(first, nc) == [i \in 1..nc |-> first + i - 1]

\* the chunk_metadata a caller passes: one record per chunk
ChunkMetadataFrom(first, nm) ==
    [i \in 1..nm |-> [content |-> ChunkContent(first + i - 1),
                        page_number |-> 1 + ((first + i - 1) \div 2)]]

\* the embeddings a caller passes: a two-dimensional array of ne rows, the
\* embeddings of the chunks' contents, or rows of another dimension
EmbeddingsFrom(first, ne, dimok) ==
    IF dimok
    THEN [dim |-> Dimension,
          rows |-> [i \in 1..ne |-> GenerateEmbedding(ChunkContent(first + i - 1))]]
    ELSE [dim |-> Dimension + 1, rows |-> [i \in 1..ne |-> WrongVec]]

\* the shapes of the arguments of add_embeddings: equal lengths, or one of
\* the three lengths differing from the others, or one row of a wrong dimension
AddShapes ==
    {sh \in [nc : 0..MaxBatch, ne : 0..MaxBatch, nm : 0..MaxBatch, dimok : BOOLEAN] :
        \/ sh.dimok /\ sh.nc > 0 /\ (sh.ne = sh.nc \/ sh.nm = sh.nc)
        \/ sh.dimok /\ sh.nc = 0 /\ sh.ne = sh.nm /\ sh.ne > 0
        \/ ~sh.dimok /\ sh.nc = 1 /\ sh.ne = 1 /\ sh.nm = 1}

\* faiss.IndexIDMap(faiss.IndexFlatIP(dimension)), empty
FreshIndex == [d |-> Dimension, ids |-> <<>>, xb |-> <<>>]

\* index.ntotal
NTotal(index) == Len(index.ids)

\* add_with_ids asserts the dimension and the number of ids
AddWithIdsRaises(index, embeddings, numeric_ids) ==
    \/ embeddings.dim # index.d
    \/ Len(embeddings.rows) # Len(numeric_ids)

AddWithIds(index, embeddings, numeric_ids) ==
    [index EXCEPT !.ids = @ \o numeric_ids, !.xb = @ \o embeddings.rows]

RECURSIVE DotFrom(_, _, _)
DotFrom(u, v, j) == IF j > Len(u) THEN 0 ELSE u[j] * v[j] + DotFrom(u, v, j + 1)

\* inner product
Dot(u, v) == DotFrom(u, v, 1)

\* index.search(query_embedding, k): the k best positions, by score
\* descending and storage position ascending, as (score, id) pairs
IndexSearch(index, qv, k) ==
    LET n         == NTotal(index)
        scores    == SubSeq([a \in 1..n |-> Dot(qv, index.xb[a])], 1, n)
        Before(a, b) == \/ scores[a] > scores[b]
                        \/ scores[a] = scores[b] /\ a < b
        Rank(a)   == Cardinality({b \in 1..n : Before(b, a)})
        ranks     == SubSeq([a \in 1..n |-> Rank(a)], 1, n)
        At(i)     == CHOOSE a \in 1..n : ranks[a] = i - 1
    IN  SubSeq([i \in 1..Min(k, n) |-> [score |-> scores[At(i)], idx |-> index.ids[At(i)]]],
               1, Min(k, n))

\* every hit list index.search may return: FAISS returns the k best scores
\* in descending order and specifies no order among vectors of equal score
IndexSearchAny(index, qv, k) ==
    LET n        == NTotal(index)
        m        == Min(k, n)
        Score(a) == Dot(qv, index.xb[a])
        Picks    == {p \in [1..m -> 1..n] :
                        /\ \A i, j \in 1..m :
                              i < j => p[i] # p[j] /\ Score(p[i]) >= Score(p[j])
                        /\ \A a \in 1..n :
                              (\A i \in 1..m : p[i] # a) =>
                                  \A i \in 1..m : Score(a) <= Score(p[i])}
    IN  {[i \in 1..m |-> [score |-> Score(p[i]), idx |-> index.ids[p[i]]]] :
            p \in Picks}

(***************************************************************************)
(* Persisted artifacts                                                     *)
(***************************************************************************)
IndexFile(d) == <<d, "index">>

MetaFile(d) == <<d, "meta">>

\* a file that was opened for writing and not written to its end
Torn == [torn |-> TRUE]

\* faiss.write_index: dimension, count, the vectors as one flat array, the id map
WriteIndex(index) ==
    [torn   |-> FALSE,
     d      |-> index.d,
     ntotal |-> NTotal(index),
     codes  |-> [j \in 1..(NTotal(index) * index.d) |->
                   index.xb[((j - 1) \div index.d) + 1][((j - 1) % index.d) + 1]],
     id_map |-> index.ids]

\* faiss.read_index
ReadIndex(file) ==
    [d   |-> file.d,
     ids |-> file.id_map,
     xb  |-> [i \in 1..file.ntotal |->
                SubSeq(file.codes, (i - 1) * file.d + 1, i * file.d)]]

\* pickle.dump of the metadata table: its items in key order
PickleDump(table) ==
    [torn  |-> FALSE,
     items |-> [i \in 1..Cardinality(DOMAIN table) |->
                  <<SortedKeys(table)[i], table[SortedKeys(table)[i]]>>]]

\* pickle.load
PickleLoad(file) ==
    [k \in {file.items[i][1] : i \in 1..Len(file.items)} |->
        (CHOOSE it \in {file.items[i] : i \in 1..Len(file.items)} : it[1] = k)[2]]

(***************************************************************************)
(* FAISSIndexManager: the effect of each call as a function of the state   *)
(***************************************************************************)
\* ret is the value returned: "True", "False", "index", or "none" for None
\* and for a call that raised
Outcome(ind, meta, dsk, ret, raised) ==
    [indices |-> ind, metadata |-> meta, disk |-> dsk, ret |-> ret, raised |-> raised]

\* create_index assigning a new metadata dictionary instead of one entry
CreateIndexOpNewMetadata(ind, meta, dsk, d) ==
    Outcome(Put(ind, d, FreshIndex), Put(EmptyMap, d, EmptyMap), dsk, "index", FALSE)

\* create_index, lines 97-112
CreateIndexOp(ind, meta, dsk, d) ==
    Outcome(Put(ind, d, FreshIndex), Put(meta, d, EmptyMap), dsk, "index", FALSE)

\* the table after the loop of lines 135-139 has stored n entries from start_id
StoreMetadata(table, start_id, chunk_ids, chunk_metadata, n) ==
    [o \in (DOMAIN table) \cup {start_id + i - 1 : i \in 1..n} |->
        IF o >= start_id /\ o < start_id + n
        THEN [chunk_id    |-> chunk_ids[o - start_id + 1],
              content     |-> chunk_metadata[o - start_id + 1].content,
              page_number |-> chunk_metadata[o - start_id + 1].page_number]
        ELSE table[o]]

\* add_embeddings, lines 114-141
AddEmbeddingsOp(ind, meta, dsk, d, chunk_ids, embeddings, chunk_metadata) ==
    LET c           == IF d \in DOMAIN ind
                       THEN Outcome(ind, meta, dsk, "none", FALSE)
                       ELSE CreateIndexOp(ind, meta, dsk, d)
        index       == c.indices[d]
        start_id    == Cardinality(DOMAIN GetOrEmpty(c.metadata, d))
        numeric_ids == [i \in 1..Len(chunk_ids) |-> start_id + i - 1]
        n           == Min(Len(chunk_ids), Len(chunk_metadata))
        added       == Put(c.indices, d, AddWithIds(index, embeddings, numeric_ids))
    IN  IF AddWithIdsRaises(index, embeddings, numeric_ids)
        THEN Outcome(c.indices, c.metadata, dsk, "none", TRUE)
        ELSE IF n > 0 /\ d \notin DOMAIN c.metadata
        THEN Outcome(added, c.metadata, dsk, "none", TRUE)
        ELSE IF n = 0
        THEN Outcome(added, c.metadata, dsk, "none", FALSE)
        ELSE Outcome(added,
                     Put(c.metadata, d,
                         StoreMetadata(c.metadata[d], start_id, chunk_ids, chunk_metadata, n)),
                     dsk, "none", FALSE)

SearchResult(entry, score, d) ==
    [chunk_id |-> entry.chunk_id, content |-> entry.content, score |-> score,
     page_number |-> entry.page_number, document_id |-> d]

\* lines 166-167, 170-171: the hits whose ordinal has a metadata entry
HitsWithMetadata(hits, doc_metadata) ==
    SelectSeq(hits, LAMBDA h : h.idx \in DOMAIN doc_metadata)

\* lines 163-178: the result list built from the hits index.search returned
BuildResults(hits, doc_metadata, d) ==
    LET found == HitsWithMetadata(hits, doc_metadata)
    IN  [i \in 1..Len(found) |->
            SearchResult(doc_metadata[found[i].idx], found[i].score, d)]

\* search, lines 143-180
Search(ind, meta, d, q, k) ==
    IF d \notin DOMAIN ind THEN <<>>
    ELSE BuildResults(IndexSearch(ind[d], GenerateEmbedding(q), k),
                      GetOrEmpty(meta, d), d)

\* lines 191-193: the results of search for each id in turn, concatenated
RECURSIVE AllResults(_, _, _, _, _)
AllResults(ind, meta, document_ids, q, k) ==
    IF document_ids = <<>> THEN <<>>
    ELSE Search(ind, meta, Head(document_ids), q, k)
             \o AllResults(ind, meta, Tail(document_ids), q, k)

\* line 196: list.sort(key=score, reverse=True), a stable sort: elements of
\* equal score keep their order
SortByScoreReverse(results) ==
    LET n         == Len(results)
        Before(a, b) == \/ results[a].score > results[b].score
                        \/ results[a].score = results[b].score /\ a < b
        Rank(a)   == Cardinality({b \in 1..n : Before(b, a)})
        ranks     == SubSeq([a \in 1..n |-> Rank(a)], 1, n)
        Place(i)  == CHOOSE a \in 1..n : ranks[a] = i - 1
    IN  [i \in 1..n |-> results[Place(i)]]

\* search_multiple_documents that returns the first k of the unsorted list
SearchMultipleDocumentsUnsorted(ind, meta, document_ids, q, k) ==
    PySlice(AllResults(ind, meta, document_ids, q, k), 0, k)

\* search_multiple_documents, lines 182-197
SearchMultipleDocuments(ind, meta, document_ids, q, k) ==
    PySlice(SortByScoreReverse(AllResults(ind, meta, document_ids, q, k)), 0, k)

\* search as its caller sees it: the result list, and whether the call
\* raised.  Lines 150-152 return [] for a document without an index, and no
\* statement of search raises.
SearchCall(ind, meta, d, q, k) ==
    [ret |-> Search(ind, meta, d, q, k), raised |-> FALSE]

\* save_index, lines 199-214
SaveIndexOp(ind, meta, dsk, d) ==
    IF d \notin DOMAIN ind
    THEN Outcome(ind, meta, dsk, "none", FALSE)
    ELSE Outcome(ind, meta,
                 Put(Put(dsk, IndexFile(d), WriteIndex(ind[d])),
                     MetaFile(d), PickleDump(GetOrEmpty(meta, d))),
                 "none", FALSE)

\* load_index that restores the index and not the metadata table
LoadIndexOpNoMetadata(ind, meta, dsk, d) ==
    IF IndexFile(d) \notin DOMAIN dsk \/ MetaFile(d) \notin DOMAIN dsk
    THEN Outcome(ind, meta, dsk, "False", FALSE)
    ELSE IF dsk[IndexFile(d)].torn
    THEN Outcome(ind, meta, dsk, "none", TRUE)
    ELSE Outcome(Put(ind, d, ReadIndex(dsk[IndexFile(d)])), meta, dsk, "True", FALSE)

\* load_index that keeps the in-memory state of a document that has one
LoadIndexOpKeepsMemory(ind, meta, dsk, d) ==
    IF IndexFile(d) \notin DOMAIN dsk \/ MetaFile(d) \notin DOMAIN dsk
    THEN Outcome(ind, meta, dsk, "False", FALSE)
    ELSE IF d \in DOMAIN ind
    THEN Outcome(ind, meta, dsk, "True", FALSE)
    ELSE Outcome(Put(ind, d, ReadIndex(dsk[IndexFile(d)])),
                 Put(meta, d, PickleLoad(dsk[MetaFile(d)])),
                 dsk, "True", FALSE)

\* load_index, lines 216-232
LoadIndexOp(ind, meta, dsk, d) ==
    IF IndexFile(d) \notin DOMAIN dsk \/ MetaFile(d) \notin DOMAIN dsk
    THEN Outcome(ind, meta, dsk, "False", FALSE)
    ELSE IF dsk[IndexFile(d)].torn
    THEN Outcome(ind, meta, dsk, "none", TRUE)
    ELSE IF dsk[MetaFile(d)].torn
    THEN Outcome(Put(ind, d, ReadIndex(dsk[IndexFile(d)])), meta, dsk, "none", TRUE)
    ELSE Outcome(Put(ind, d, ReadIndex(dsk[IndexFile(d)])),
                 Put(meta, d, PickleLoad(dsk[MetaFile(d)])),
                 dsk, "True", FALSE)

\* delete_index that removes the index file and leaves the metadata file
DeleteIndexOpKeepsMetaFile(ind, meta, dsk, d) ==
    Outcome(Del(ind, d), Del(meta, d), Del(dsk, IndexFile(d)), "none", FALSE)

\* delete_index, lines 234-250
DeleteIndexOp(ind, meta, dsk, d) ==
    Outcome(Del(ind, d), Del(meta, d), Del(Del(dsk, IndexFile(d)), MetaFile(d)),
            "none", FALSE)

\* get_index_stats, lines 252-262
GetIndexStats(ind, meta, d) ==
    IF d \notin DOMAIN ind THEN EmptyMap
    ELSE [total_vectors    |-> NTotal(ind[d]),
          dimension        |-> Dimension,
          metadata_entries |-> Cardinality(DOMAIN GetOrEmpty(meta, d))]

(***************************************************************************)
(* GlobalIndexManager: the IVF index over all documents                    *)
(***************************************************************************)
\* self.global_index = None
NoGlobalIndex ==
    [exists |-> FALSE, trained |-> FALSE, d |-> Dimension, nprobe |-> 1,
     ids |-> <<>>, xb |-> <<>>]

\* faiss.IndexIVFFlat(quantizer, dimension, nlist, METRIC_INNER_PRODUCT):
\* empty, not trained, nprobe 1
NewIVFIndex ==
    [exists |-> TRUE, trained |-> FALSE, d |-> Dimension, nprobe |-> 1,
     ids |-> <<>>, xb |-> <<>>]

\* the fields of a GlobalIndexManager a call works on, and what it returns
GlobalOutcome(index, meta, trained, ret, raised) ==
    [index |-> index, metadata |-> meta, is_trained |-> trained,
     ret |-> ret, raised |-> raised]

GlobalState == GlobalOutcome(global_index, global_metadata, is_trained, "none", FALSE)

\* the training_vectors argument: None, or an array of the rows given
NoTrainingVectors == [given |-> FALSE, rows |-> <<>>]

TrainingVectors(rows) == [given |-> TRUE, rows |-> rows]

\* create_global_index, lines 278-291
CreateGlobalIndexOp(g, nl, training_vectors) ==
    IF training_vectors.given /\ Len(training_vectors.rows) >= nl
    THEN GlobalOutcome([NewIVFIndex EXCEPT !.trained = TRUE], g.metadata, TRUE,
                       "none", FALSE)
    ELSE GlobalOutcome(NewIVFIndex, g.metadata, g.is_trained, "none", FALSE)

\* the table after the loop of lines 319-324 has stored n entries from start_id
StoreGlobalMetadata(table, start_id, d, chunk_ids, chunk_metadata, n) ==
    [o \in (DOMAIN table) \cup {start_id + i - 1 : i \in 1..n} |->
        IF o >= start_id /\ o < start_id + n
        THEN [chunk_id    |-> chunk_ids[o - start_id + 1],
              document_id |-> d,
              content     |-> chunk_metadata[o - start_id + 1].content,
              page_number |-> chunk_metadata[o - start_id + 1].page_number]
        ELSE table[o]]

\* add_to_global_index without the batch-size test of line 304
AddToGlobalIndexOpTrainsAnyBatch(g, nl, d, chunk_ids, embeddings, chunk_metadata) ==
    LET c == IF ~g.index.exists
             THEN CreateGlobalIndexOp(g, nl, TrainingVectors(embeddings.rows))
             ELSE g
        t == IF ~c.is_trained
             THEN [c EXCEPT !.index.trained = TRUE, !.is_trained = TRUE]
             ELSE c
        start_id    == Cardinality(DOMAIN t.metadata)
        numeric_ids == [i \in 1..Len(chunk_ids) |-> start_id + i - 1]
        n           == Min(Len(chunk_ids), Len(chunk_metadata))
    IN  IF ~t.is_trained
        THEN GlobalOutcome(t.index, t.metadata, t.is_trained, "none", FALSE)
        ELSE IF ~t.index.trained \/ AddWithIdsRaises(t.index, embeddings, numeric_ids)
        THEN GlobalOutcome(t.index, t.metadata, t.is_trained, "none", TRUE)
        ELSE GlobalOutcome(AddWithIds(t.index, embeddings, numeric_ids),
                           StoreGlobalMetadata(t.metadata, start_id, d, chunk_ids,
                                               chunk_metadata, n),
                           t.is_trained, "none", FALSE)

\* add_to_global_index, lines 293-324.  IndexIVFFlat.add_with_ids raises on
\* an index that was not trained.
AddToGlobalIndexOp(g, nl, d, chunk_ids, embeddings, chunk_metadata) ==
    LET c == IF ~g.index.exists
             THEN CreateGlobalIndexOp(g, nl, TrainingVectors(embeddings.rows))
             ELSE g
        t == IF ~c.is_trained /\ Len(embeddings.rows) >= nl
             THEN [c EXCEPT !.index.trained = TRUE, !.is_trained = TRUE]
             ELSE c
        start_id    == Cardinality(DOMAIN t.metadata)
        numeric_ids == [i \in 1..Len(chunk_ids) |-> start_id + i - 1]
        n           == Min(Len(chunk_ids), Len(chunk_metadata))
    IN  IF ~t.is_trained
        THEN GlobalOutcome(t.index, t.metadata, t.is_trained, "none", FALSE)
        ELSE IF ~t.index.trained \/ AddWithIdsRaises(t.index, embeddings, numeric_ids)
        THEN GlobalOutcome(t.index, t.metadata, t.is_trained, "none", TRUE)
        ELSE GlobalOutcome(AddWithIds(t.index, embeddings, numeric_ids),
                           StoreGlobalMetadata(t.metadata, start_id, d, chunk_ids,
                                               chunk_metadata, n),
                           t.is_trained, "none", FALSE)

\* lines 339-352: the result list built from the hits of the global index
BuildGlobalResults(hits, meta) ==
    LET found == HitsWithMetadata(hits, meta)
    IN  [i \in 1..Len(found) |->
            SearchResult(meta[found[i].idx], found[i].score,
                         meta[found[i].idx].document_id)]

\* global_search that queries whenever the index object exists
GlobalSearchOpNoTrainedTest(g, nl, q, k) ==
    IF ~g.index.exists
    THEN GlobalOutcome(g.index, g.metadata, g.is_trained, <<>>, FALSE)
    ELSE LET probed == [g.index EXCEPT !.nprobe = Min(MaxNProbe, nl)]
         IN  GlobalOutcome(probed, g.metadata, g.is_trained,
                           BuildGlobalResults(
                               IndexSearch(probed, GenerateEmbedding(q), k),
                               g.metadata),
                           FALSE)

\* global_search, lines 326-354.  With nprobe = min(10, nlist) = nlist every
\* list is probed and the search is exhaustive; on an index that was not
\* trained no list is probed.
GlobalSearchOp(g, nl, q, k) ==
    IF ~g.index.exists \/ ~g.is_trained
    THEN GlobalOutcome(g.index, g.metadata, g.is_trained, <<>>, FALSE)
    ELSE LET probed == [g.index EXCEPT !.nprobe = Min(MaxNProbe, nl)]
         IN  GlobalOutcome(probed, g.metadata, g.is_trained,
                           BuildGlobalResults(
                               IndexSearch(probed, GenerateEmbedding(q), k),
                               g.metadata),
                           FALSE)

\* the lifecycle state of the global index
Uninitialized(g) == ~g.index.exists

Untrained(g) == g.index.exists /\ ~g.is_trained

Trained(g) == g.index.exists /\ g.is_trained

NoGlobalCall ==
    [op |-> "none", n |-> 0, given |-> FALSE, raised |-> FALSE, ret |-> "none",
     before |-> GlobalOutcome(NoGlobalIndex, EmptyMap, FALSE, "none", FALSE)]

\* the record of a call on the global index: its outcome r, the number of
\* rows it was given, and the fields as the call found them
GlobalCall(op, n, given, r) ==
    [op |-> op, n |-> n, given |-> given, raised |-> r.raised, ret |-> r.ret,
     before |-> GlobalState]

\* GlobalIndexManager.__init__, lines 271-276, with nlist nl
NewGlobal(nl) ==
    /\ nlist = nl
    /\ global_index = NoGlobalIndex
    /\ global_metadata = EmptyMap
    /\ is_trained = FALSE
    /\ gcid = 1
    /\ gops = 0
    /\ glast = NoGlobalCall
    /\ offered = 0

\* no call is made on the global index
GlobalIdle == NewGlobal(DefaultNList)

ApplyGlobal(r) ==
    /\ global_index' = r.index
    /\ global_metadata' = r.metadata
    /\ is_trained' = r.is_trained

\* create_global_index with no argument (rows = -1) or with that many rows
CreateGlobalIndex(rows) ==
    /\ gops < MaxGlobalCalls
    /\ LET tv == IF rows < 0 THEN NoTrainingVectors
                 ELSE TrainingVectors(EmbeddingsFrom(gcid, rows, TRUE).rows)
           r  == CreateGlobalIndexOp(GlobalState, nlist, tv)
       IN  /\ ApplyGlobal(r)
           /\ glast' = GlobalCall("create", Max(rows, 0), rows >= 0, r)
    /\ gops' = gops + 1
    /\ UNCHANGED <<nlist, gcid, offered>>
    /\ UNCHANGED outsideGlobal

\* add_to_global_index with n chunks of document d
AddToGlobalIndex(d, n) ==
    /\ gops < MaxGlobalCalls
    /\ LET r == AddToGlobalIndexOp(GlobalState, nlist, d,
                                   ChunkIdsFrom(gcid, n),
                                   EmbeddingsFrom(gcid, n, TRUE),
                                   ChunkMetadataFrom(gcid, n))
       IN  /\ ApplyGlobal(r)
           /\ glast' = GlobalCall("add", n, TRUE, r)
    /\ offered' = IF is_trained THEN offered ELSE offered + n
    /\ gcid' = gcid + n
    /\ gops' = gops + 1
    /\ UNCHANGED nlist
    /\ UNCHANGED outsideGlobal

\* global_search(q, k)
GlobalSearch(q, k) ==
    /\ gops < MaxGlobalCalls
    /\ LET r == GlobalSearchOp(GlobalState, nlist, q, k)
       IN  /\ ApplyGlobal(r)
           /\ glast' = GlobalCall("search", 0, FALSE, r)
    /\ gops' = gops + 1
    /\ UNCHANGED <<nlist, gcid, offered>>
    /\ UNCHANGED outsideGlobal

\* the batch sizes of add_to_global_index and create_global_index
GlobalBatches == 1..MaxBatch

NextGlobal ==
    \/ \E rows \in {-1} \cup GlobalBatches : CreateGlobalIndex(rows)
    \/ \E d \in Docs, n \in GlobalBatches : AddToGlobalIndex(d, n)
    \/ \E q \in Queries : GlobalSearch(q, MaxK)

(***************************************************************************)
(* FAISSIndexManager: one action per call                                  *)
(***************************************************************************)
NoSaves == [d \in Docs |-> {}]

HasFiles(dsk, d) == IndexFile(d) \in DOMAIN dsk /\ MetaFile(d) \in DOMAIN dsk

\* the record of a call: its arguments' shape, its outcome r, and what the
\* manager held for the document when the call was made
Call(op, d, r, sh) ==
    [op |-> op, doc |-> d, raised |-> r.raised, ret |-> r.ret,
     nc |-> sh.nc, ne |-> sh.ne, nm |-> sh.nm, dimok |-> sh.dimok,
     hadIndex |-> d \in DOMAIN indices,
     hadFiles |-> HasFiles(disk, d),
     changed  |-> r.indices # indices \/ r.metadata # metadata \/ r.disk # disk]

NoShape == [nc |-> 0, ne |-> 0, nm |-> 0, dimok |-> TRUE]

NoCall ==
    [op |-> "none", doc |-> "none", raised |-> FALSE, ret |-> "none",
     nc |-> 0, ne |-> 0, nm |-> 0, dimok |-> TRUE,
     hadIndex |-> FALSE, hadFiles |-> FALSE, changed |-> FALSE]

\* FAISSIndexManager.__init__ over an empty index directory, lines 88-95
InitMgr ==
    /\ indices = EmptyMap
    /\ metadata = EmptyMap
    /\ disk = EmptyMap
    /\ next_cid = 1
    /\ nops = 0
    /\ last = NoCall
    /\ saved = NoSaves

Workers == {"w1", "w2"}

\* the locals of a call; idx tells whether the index object the call holds
\* is still the one in self.indices ("live") or was replaced there
\* ("detached", its content then kept in val)
IdleLocals ==
    [op |-> "none", doc |-> "none", first |-> 0, n |-> 0,
     idx |-> "none", val |-> FreshIndex, start_id |-> 0, i |-> 0,
     ret |-> "none", raised |-> FALSE, wrote |-> FreshIndex]

NoHistory == [adds |-> <<>>, others |-> FALSE]

\* no worker inside a call
WorkersIdle ==
    /\ wpc = [w \in Workers |-> "idle"]
    /\ wl = [w \in Workers |-> IdleLocals]
    /\ hist = NoHistory
(***************************************************************************)
(* api/routes.py: upload_document, query_document and delete_document over *)
(* the module-level index_manager (the variables indices, metadata) and    *)
(* rag_service, whose __init__ constructs an index manager of its own over *)
(* the same index_path.                                                    *)
(***************************************************************************)
NoQuery == [doc |-> "none", passed |-> FALSE, loaded |-> FALSE, held |-> FALSE, ret |-> <<>>]

\* routes.py lines 28-29 at import: two managers with empty dictionaries
RoutesIdle ==
    /\ rag_indices = EmptyMap
    /\ rag_metadata = EmptyMap
    /\ documents = [d \in Docs |-> "absent"]
    /\ rops = 0
    /\ qlast = NoQuery

(***************************************************************************)
(* EmbeddingService, embedding_service.py lines 29-84: __new__, __init__   *)
(* and _load_model, one action per statement; a thread may be suspended    *)
(* between any two statements. Only __new__ takes the lock.                *)
(***************************************************************************)
SvcThreads == 1..MaxSvcThreads

\* the class before its first use: _instance is None (lines 32-33)
NoService == [exists |-> FALSE, initialized |-> "unset", model |-> "None"]

NoSvcHistory == [created |-> 0, loads |-> 0, resets |-> 0, got |-> 0]

SvcIdle ==
    /\ svc = NoService
    /\ svc_lock = 0
    /\ spc = [t \in SvcThreads |-> "idle"]
    /\ scalls = 0
    /\ shist = NoSvcHistory

SvcGoto(t, pc) == spc' = [spc EXCEPT ![t] = pc]

\* a thread calls EmbeddingService()
BeginConstruct(t) ==
    /\ spc[t] \in {"idle", "have"}
    /\ scalls < MaxSvcCalls
    /\ scalls' = scalls + 1
    /\ SvcGoto(t, "new36")
    /\ UNCHANGED <<svc, svc_lock, shist>>
    /\ UNCHANGED outsideSvc

\* line 36: the first test of _instance, outside the lock
New36(t) ==
    /\ spc[t] = "new36"
    /\ SvcGoto(t, IF ~svc.exists THEN "new37" ELSE "new41")
    /\ UNCHANGED <<svc, svc_lock, scalls, shist>>
    /\ UNCHANGED outsideSvc

\* line 37: with cls._lock
New37(t) ==
    /\ spc[t] = "new37"
    /\ svc_lock = 0
    /\ svc_lock' = t
    /\ SvcGoto(t, "new38")
    /\ UNCHANGED <<svc, scalls, shist>>
    /\ UNCHANGED outsideSvc

\* line 38: the second test, under the lock; leaving the block releases it
New38(t) ==
    /\ spc[t] = "new38"
    /\ IF ~svc.exists
       THEN SvcGoto(t, "new39") /\ UNCHANGED svc_lock
       ELSE SvcGoto(t, "new41") /\ svc_lock' = 0
    /\ UNCHANGED <<svc, scalls, shist>>
    /\ UNCHANGED outsideSvc

\* line 39: cls._instance = super().__new__(cls)
New39(t) ==
    /\ spc[t] = "new39"
    /\ svc' = [exists |-> TRUE, initialized |-> "unset", model |-> "None"]
    /\ shist' = [shist EXCEPT !.created = @ + 1]
    /\ SvcGoto(t, "new40")
    /\ UNCHANGED <<svc_lock, scalls>>
    /\ UNCHANGED outsideSvc

\* line 40: cls._instance._initialized = False, then the lock is released
New40(t) ==
    /\ spc[t] = "new40"
    /\ svc' = [svc EXCEPT !.initialized = "False"]
    /\ svc_lock' = 0
    /\ SvcGoto(t, "new41")
    /\ UNCHANGED <<scalls, shist>>
    /\ UNCHANGED outsideSvc

\* line 41: return cls._instance; Python then calls __init__ on it
New41(t) ==
    /\ spc[t] = "new41"
    /\ shist' = [shist EXCEPT !.got = @ + 1]
    /\ SvcGoto(t, "init44")
    /\ UNCHANGED <<svc, svc_lock, scalls>>
    /\ UNCHANGED outsideSvc

\* lines 44-45: if self._initialized: return. The attribute does not exist
\* between lines 39 and 40 of another thread: AttributeError
Init44(t) ==
    /\ spc[t] = "init44"
    /\ SvcGoto(t, CASE svc.initialized = "unset" -> "raised"
                    [] svc.initialized = "True"  -> "have"
                    [] OTHER                     -> "init48")
    /\ UNCHANGED <<svc, svc_lock, scalls, shist>>
    /\ UNCHANGED outsideSvc

\* lines 47-48: self.model_name = ...; self.model = None
Init48(t) ==
    /\ spc[t] = "init48"
    /\ svc' = [svc EXCEPT !.model = "None"]
    /\ shist' = IF svc.model = "loaded" THEN [shist EXCEPT !.resets = @ + 1] ELSE shist
    /\ SvcGoto(t, "init50")
    /\ UNCHANGED <<svc_lock, scalls>>
    /\ UNCHANGED outsideSvc

\* lines 49-50: self.dimension = 384; self._initialized = True
Init50(t) ==
    /\ spc[t] = "init50"
    /\ svc' = [svc EXCEPT !.initialized = "True"]
    /\ SvcGoto(t, "have")
    /\ UNCHANGED <<svc_lock, scalls, shist>>
    /\ UNCHANGED outsideSvc

\* a thread that holds the instance calls get_dimension, generate_embedding
\* or generate_embeddings_batch: each begins with self._load_model()
BeginUse(t) ==
    /\ spc[t] = "have"
    /\ scalls < MaxSvcCalls
    /\ scalls' = scalls + 1
    /\ SvcGoto(t, "load55")
    /\ UNCHANGED <<svc, svc_lock, shist>>
    /\ UNCHANGED outsideSvc

\* line 55: if self.model is None
Load55(t) ==
    /\ spc[t] = "load55"
    /\ SvcGoto(t, IF svc.model = "None" THEN "load57" ELSE "use")
    /\ UNCHANGED <<svc, svc_lock, scalls, shist>>
    /\ UNCHANGED outsideSvc

\* lines 57-58: self.model = SentenceTransformer(self.model_name) and its dimension
Load57(t) ==
    /\ spc[t] = "load57"
    /\ svc' = [svc EXCEPT !.model = "loaded"]
    /\ shist' = [shist EXCEPT !.loads = @ + 1]
    /\ SvcGoto(t, "use")
    /\ UNCHANGED <<svc_lock, scalls>>
    /\ UNCHANGED outsideSvc

\* lines 64, 70, 84: the caller reads self.model or self.dimension;
\* self.model.encode on a model reset to None raises AttributeError
Use(t) ==
    /\ spc[t] = "use"
    /\ SvcGoto(t, IF svc.model = "None" THEN "raised" ELSE "have")
    /\ UNCHANGED <<svc, svc_lock, scalls, shist>>
    /\ UNCHANGED outsideSvc

NextSvc ==
    \/ \E t \in SvcThreads : BeginConstruct(t)
    \/ \E t \in SvcThreads : New36(t)
    \/ \E t \in SvcThreads : New37(t)
    \/ \E t \in SvcThreads : New38(t)
    \/ \E t \in SvcThreads : New39(t)
    \/ \E t \in SvcThreads : New40(t)
    \/ \E t \in SvcThreads : New41(t)
    \/ \E t \in SvcThreads : Init44(t)
    \/ \E t \in SvcThreads : Init48(t)
    \/ \E t \in SvcThreads : Init50(t)
    \/ \E t \in SvcThreads : BeginUse(t)
    \/ \E t \in SvcThreads : Load55(t)
    \/ \E t \in SvcThreads : Load57(t)
    \/ \E t \in SvcThreads : Use(t)

\* no index manager in use
MgrIdle == InitMgr /\ WorkersIdle /\ GlobalIdle /\ RoutesIdle /\ SvcIdle

Apply(r) ==
    /\ indices' = r.indices
    /\ metadata' = r.metadata
    /\ disk' = r.disk

CreateIndex(d) ==
    /\ nops < MaxOps
    /\ Apply(CreateIndexOp(indices, metadata, disk, d))
    /\ last' = Call("create", d, CreateIndexOp(indices, metadata, disk, d), NoShape)
    /\ nops' = nops + 1
    /\ UNCHANGED <<next_cid, saved>>
    /\ UNCHANGED outsideMgr

AddEmbeddings(d, sh) ==
    /\ nops < MaxOps
    /\ LET r == AddEmbeddingsOp(indices, metadata, disk, d,
                                ChunkIdsFrom(next_cid, sh.nc),
                                EmbeddingsFrom(next_cid, sh.ne, sh.dimok),
                                ChunkMetadataFrom(next_cid, sh.nm))
       IN  /\ Apply(r)
           /\ last' = Call("add", d, r, sh)
    /\ next_cid' = next_cid + Max(sh.nc, Max(sh.ne, sh.nm))
    /\ nops' = nops + 1
    /\ UNCHANGED saved
    /\ UNCHANGED outsideMgr

SaveIndex(d) ==
    /\ nops < MaxOps
    /\ Apply(SaveIndexOp(indices, metadata, disk, d))
    /\ last' = Call("save", d, SaveIndexOp(indices, metadata, disk, d), NoShape)
    /\ saved' = IF d \in DOMAIN indices
                THEN [saved EXCEPT ![d] = @ \cup {<<indices[d], GetOrEmpty(metadata, d)>>}]
                ELSE saved
    /\ nops' = nops + 1
    /\ UNCHANGED next_cid
    /\ UNCHANGED outsideMgr

LoadIndex(d) ==
    /\ nops < MaxOps
    /\ LET r == LoadIndexOp(indices, metadata, disk, d)
       IN  /\ Apply(r)
           /\ last' = Call("load", d, r, NoShape)
    /\ nops' = nops + 1
    /\ UNCHANGED <<next_cid, saved>>
    /\ UNCHANGED outsideMgr

DeleteIndex(d) ==
    /\ nops < MaxOps
    /\ Apply(DeleteIndexOp(indices, metadata, disk, d))
    /\ last' = Call("delete", d, DeleteIndexOp(indices, metadata, disk, d), NoShape)
    /\ nops' = nops + 1
    /\ UNCHANGED <<next_cid, saved>>
    /\ UNCHANGED outsideMgr

\* a fresh FAISSIndexManager over the same index_path, lines 88-95
NewManager ==
    /\ nops < MaxOps
    /\ indices # EmptyMap \/ metadata # EmptyMap
    /\ indices' = EmptyMap
    /\ metadata' = EmptyMap
    /\ last' = [NoCall EXCEPT !.op = "new", !.changed = TRUE]
    /\ nops' = nops + 1
    /\ UNCHANGED <<disk, next_cid, saved>>
    /\ UNCHANGED outsideMgr

Init == ChunkIdle /\ InitMgr /\ WorkersIdle /\ GlobalIdle /\ RoutesIdle /\ SvcIdle

\* a GlobalIndexManager constructed with a small nlist, nothing else in use
InitGlobal ==
    /\ ChunkIdle /\ InitMgr /\ WorkersIdle /\ RoutesIdle /\ SvcIdle
    /\ \E nl \in 1..MaxNList : NewGlobal(nl)

Next ==
    \/ \E d \in SpecDocs : CreateIndex(d)
    \/ \E d \in SpecDocs, sh \in AddShapes : AddEmbeddings(d, sh)
    \/ \E d \in SpecDocs : SaveIndex(d)
    \/ \E d \in SpecDocs : LoadIndex(d)
    \/ \E d \in SpecDocs : DeleteIndex(d)
    \/ NewManager


(***************************************************************************)
(* FAISSIndexManager: one action per statement of a call.  The workers are *)
(* request threads that share one manager; no statement takes a lock.      *)
(***************************************************************************)
\* the documents the statement-level specifications work on
StepDocs == {"A"}

\* the batch sizes of the add_embeddings calls of the statement-level
\* specifications: chunk ids, rows and metadata of one length, right dimension
StepBatches == 1..MaxBatch

FirstStatement(op) ==
    CASE op = "create" -> "create108"
      [] op = "add"    -> "add122"
      [] op = "save"   -> "save201"
      [] op = "load"   -> "load221"
      [] op = "delete" -> "del237"

\* the other workers' locals once self.indices[d] is bound to another object
\* or unbound: an index object they hold is no longer the one in self.indices
Detached(w, d) ==
    [v \in Workers |->
        IF v # w /\ wl[v].doc = d /\ wl[v].idx = "live" /\ d \in DOMAIN indices
        THEN [wl[v] EXCEPT !.idx = "detached", !.val = indices[d]]
        ELSE wl[v]]

At(w, pc) == wpc[w] = pc

Goto(w, pc) == wpc' = [wpc EXCEPT ![w] = pc]

\* the statement raises: the call ends with an exception
Raise(w) ==
    /\ Goto(w, "return")
    /\ wl' = [wl EXCEPT ![w].raised = TRUE]

\* a worker enters a call other than add_embeddings
BeginCall(w, op, d, budget) ==
    /\ At(w, "idle")
    /\ nops < budget
    /\ Goto(w, FirstStatement(op))
    /\ wl' = [wl EXCEPT ![w] = [IdleLocals EXCEPT !.op = op, !.doc = d]]
    /\ hist' = [hist EXCEPT !.others = TRUE]
    /\ nops' = nops + 1
    /\ UNCHANGED <<indices, metadata, disk, next_cid, saved>>
    /\ UNCHANGED outsideWorkers

\* a worker enters add_embeddings with n chunks
BeginAdd(w, d, n, budget) ==
    /\ At(w, "idle")
    /\ nops < budget
    /\ Goto(w, FirstStatement("add"))
    /\ wl' = [wl EXCEPT ![w] = [IdleLocals EXCEPT !.op = "add", !.doc = d,
                                                  !.first = next_cid, !.n = n]]
    /\ hist' = [hist EXCEPT !.adds = Append(@, [w |-> w, doc |-> d,
                                                first |-> next_cid, n |-> n])]
    /\ next_cid' = next_cid + n
    /\ nops' = nops + 1
    /\ UNCHANGED <<indices, metadata, disk, saved>>
    /\ UNCHANGED outsideWorkers

\* line 108: self.indices[document_id] = index
Create108(w) ==
    /\ At(w, "create108")
    /\ indices' = Put(indices, wl[w].doc, FreshIndex)
    /\ wl' = Detached(w, wl[w].doc)
    /\ Goto(w, "create109")
    /\ UNCHANGED <<metadata, disk, next_cid, nops, saved, hist>>
    /\ UNCHANGED outsideWorkers

\* line 109: self.metadata[document_id] = {}, then back to the caller
Create109(w) ==
    /\ At(w, "create109")
    /\ metadata' = Put(metadata, wl[w].doc, EmptyMap)
    /\ Goto(w, IF wl[w].op = "add" THEN "add125" ELSE "return")
    /\ UNCHANGED <<indices, disk, next_cid, nops, saved, wl, hist>>
    /\ UNCHANGED outsideWorkers

\* line 122: if document_id not in self.indices
Add122(w) ==
    /\ At(w, "add122")
    /\ Goto(w, IF wl[w].doc \in DOMAIN indices THEN "add125" ELSE "create108")
    /\ UNCHANGED <<indices, metadata, disk, next_cid, nops, saved, wl, hist>>
    /\ UNCHANGED outsideWorkers

\* line 125: index = self.indices[document_id]
Add125(w) ==
    /\ At(w, "add125")
    /\ IF wl[w].doc \in DOMAIN indices
       THEN /\ Goto(w, "add128")
            /\ wl' = [wl EXCEPT ![w].idx = "live"]
       ELSE Raise(w)
    /\ UNCHANGED <<indices, metadata, disk, next_cid, nops, saved, hist>>
    /\ UNCHANGED outsideWorkers

\* line 128: start_id = len(self.metadata.get(document_id, {}))
Add128(w) ==
    /\ At(w, "add128")
    /\ wl' = [wl EXCEPT ![w].start_id =
                 Cardinality(DOMAIN GetOrEmpty(metadata, wl[w].doc))]
    /\ Goto(w, "add132")
    /\ UNCHANGED <<indices, metadata, disk, next_cid, nops, saved, hist>>
    /\ UNCHANGED outsideWorkers

\* lines 129-132: index.add_with_ids(embeddings, numeric_ids)
Add132(w) ==
    /\ At(w, "add132")
    /\ LET d           == wl[w].doc
           embeddings  == EmbeddingsFrom(wl[w].first, wl[w].n, TRUE)
           numeric_ids == [i \in 1..wl[w].n |-> wl[w].start_id + i - 1]
           index       == IF wl[w].idx = "live" THEN indices[d] ELSE wl[w].val
       IN  IF AddWithIdsRaises(index, embeddings, numeric_ids)
           THEN Raise(w) /\ UNCHANGED indices
           ELSE /\ Goto(w, "add135")
                /\ IF wl[w].idx = "live"
                   THEN /\ indices' = Put(indices, d, AddWithIds(index, embeddings, numeric_ids))
                        /\ wl' = [wl EXCEPT ![w].i = 0]
                   ELSE /\ UNCHANGED indices
                        /\ wl' = [wl EXCEPT ![w].i = 0,
                                            ![w].val = AddWithIds(index, embeddings, numeric_ids)]
    /\ UNCHANGED <<metadata, disk, next_cid, nops, saved, hist>>
    /\ UNCHANGED outsideWorkers

\* lines 135-139: one iteration of the metadata loop; line 141 after the last
Add135(w) ==
    /\ At(w, "add135")
    /\ LET d     == wl[w].doc
           i     == wl[w].i
           entry == [chunk_id    |-> ChunkIdsFrom(wl[w].first, wl[w].n)[i + 1],
                     content     |-> ChunkMetadataFrom(wl[w].first, wl[w].n)[i + 1].content,
                     page_number |-> ChunkMetadataFrom(wl[w].first, wl[w].n)[i + 1].page_number]
       IN  IF d \notin DOMAIN metadata
           THEN Raise(w) /\ UNCHANGED metadata
           ELSE /\ metadata' = Put(metadata, d, Put(metadata[d], wl[w].start_id + i, entry))
                /\ wl' = [wl EXCEPT ![w].i = i + 1]
                /\ Goto(w, IF i + 1 < wl[w].n THEN "add135" ELSE "return")
    /\ UNCHANGED <<indices, disk, next_cid, nops, saved, hist>>
    /\ UNCHANGED outsideWorkers

\* lines 201-202: if document_id not in self.indices: return
Save201(w) ==
    /\ At(w, "save201")
    /\ Goto(w, IF wl[w].doc \in DOMAIN indices THEN "save208" ELSE "return")
    /\ UNCHANGED <<indices, metadata, disk, next_cid, nops, saved, wl, hist>>
    /\ UNCHANGED outsideWorkers

\* line 208, first half: self.indices[document_id] is fetched and write_index
\* opens the index file for writing
Save208(w) ==
    /\ At(w, "save208")
    /\ IF wl[w].doc \in DOMAIN indices
       THEN /\ disk' = Put(disk, IndexFile(wl[w].doc), Torn)
            /\ wl' = [wl EXCEPT ![w].idx = "live"]
            /\ Goto(w, "save208w")
       ELSE Raise(w) /\ UNCHANGED disk
    /\ UNCHANGED <<indices, metadata, next_cid, nops, saved, hist>>
    /\ UNCHANGED outsideWorkers

\* line 208, second half: write_index has written the index and closed the file
Save208w(w) ==
    /\ At(w, "save208w")
    /\ LET index == IF wl[w].idx = "live" THEN indices[wl[w].doc] ELSE wl[w].val
       IN  /\ disk' = Put(disk, IndexFile(wl[w].doc), WriteIndex(index))
           /\ wl' = [wl EXCEPT ![w].idx = "none", ![w].val = FreshIndex, ![w].wrote = index]
    /\ Goto(w, "save211")
    /\ UNCHANGED <<indices, metadata, next_cid, nops, saved, hist>>
    /\ UNCHANGED outsideWorkers

\* line 211: open(meta_file, 'wb')
Save211(w) ==
    /\ At(w, "save211")
    /\ disk' = Put(disk, MetaFile(wl[w].doc), Torn)
    /\ Goto(w, "save212")
    /\ UNCHANGED <<indices, metadata, next_cid, nops, saved, wl, hist>>
    /\ UNCHANGED outsideWorkers

\* line 212: pickle.dump(self.metadata.get(document_id, {}), f) and close
Save212(w) ==
    /\ At(w, "save212")
    /\ LET table == GetOrEmpty(metadata, wl[w].doc)
       IN  /\ disk' = Put(disk, MetaFile(wl[w].doc), PickleDump(table))
           /\ saved' = [saved EXCEPT ![wl[w].doc] = @ \cup {<<wl[w].wrote, table>>}]
    /\ Goto(w, "return")
    /\ UNCHANGED <<indices, metadata, next_cid, nops, wl, hist>>
    /\ UNCHANGED outsideWorkers

\* lines 221-222: return False unless both files exist
Load221(w) ==
    /\ At(w, "load221")
    /\ IF HasFiles(disk, wl[w].doc)
       THEN Goto(w, "load225") /\ UNCHANGED wl
       ELSE Goto(w, "return") /\ wl' = [wl EXCEPT ![w].ret = "False"]
    /\ UNCHANGED <<indices, metadata, disk, next_cid, nops, saved, hist>>
    /\ UNCHANGED outsideWorkers

\* line 225: self.indices[document_id] = faiss.read_index(index_file)
Load225(w) ==
    /\ At(w, "load225")
    /\ LET f == IndexFile(wl[w].doc)
       IN  IF f \notin DOMAIN disk \/ disk[f].torn
           THEN Raise(w) /\ UNCHANGED indices
           ELSE /\ indices' = Put(indices, wl[w].doc, ReadIndex(disk[f]))
                /\ wl' = Detached(w, wl[w].doc)
                /\ Goto(w, "load228")
    /\ UNCHANGED <<metadata, disk, next_cid, nops, saved, hist>>
    /\ UNCHANGED outsideWorkers

\* lines 228-232: self.metadata[document_id] = pickle.load(f); return True
Load228(w) ==
    /\ At(w, "load228")
    /\ LET f == MetaFile(wl[w].doc)
       IN  IF f \notin DOMAIN disk \/ disk[f].torn
           THEN Raise(w) /\ UNCHANGED metadata
           ELSE /\ metadata' = Put(metadata, wl[w].doc, PickleLoad(disk[f]))
                /\ wl' = [wl EXCEPT ![w].ret = "True"]
                /\ Goto(w, "return")
    /\ UNCHANGED <<indices, disk, next_cid, nops, saved, hist>>
    /\ UNCHANGED outsideWorkers

\* lines 237-238: del self.indices[document_id] if present
Del237(w) ==
    /\ At(w, "del237")
    /\ indices' = Del(indices, wl[w].doc)
    /\ wl' = Detached(w, wl[w].doc)
    /\ Goto(w, "del239")
    /\ UNCHANGED <<metadata, disk, next_cid, nops, saved, hist>>
    /\ UNCHANGED outsideWorkers

\* lines 239-240: del self.metadata[document_id] if present
Del239(w) ==
    /\ At(w, "del239")
    /\ metadata' = Del(metadata, wl[w].doc)
    /\ Goto(w, "del246i")
    /\ UNCHANGED <<indices, disk, next_cid, nops, saved, wl, hist>>
    /\ UNCHANGED outsideWorkers

\* lines 246-248, first file: remove the index file if it exists
Del246i(w) ==
    /\ At(w, "del246i")
    /\ disk' = Del(disk, IndexFile(wl[w].doc))
    /\ Goto(w, "del246m")
    /\ UNCHANGED <<indices, metadata, next_cid, nops, saved, wl, hist>>
    /\ UNCHANGED outsideWorkers

\* lines 246-248, second file: remove the metadata file if it exists
Del246m(w) ==
    /\ At(w, "del246m")
    /\ disk' = Del(disk, MetaFile(wl[w].doc))
    /\ Goto(w, "return")
    /\ UNCHANGED <<indices, metadata, next_cid, nops, saved, wl, hist>>
    /\ UNCHANGED outsideWorkers

\* the call is over and the worker takes its next request
Return(w) ==
    /\ At(w, "return")
    /\ Goto(w, "idle")
    /\ wl' = [wl EXCEPT ![w] = IdleLocals]
    /\ UNCHANGED <<indices, metadata, disk, next_cid, nops, saved, hist>>
    /\ UNCHANGED outsideWorkers

\* the process dies and is started again: the manager of line 28 of
\* routes.py is constructed anew over the files that are on disk
Crash ==
    /\ indices # EmptyMap \/ metadata # EmptyMap \/ \E w \in Workers : ~At(w, "idle")
    /\ indices' = EmptyMap
    /\ metadata' = EmptyMap
    /\ wpc' = [w \in Workers |-> "idle"]
    /\ wl' = [w \in Workers |-> IdleLocals]
    /\ UNCHANGED <<disk, next_cid, nops, saved, hist>>
    /\ UNCHANGED outsideWorkers

Statement(w) ==
    \/ Create108(w) \/ Create109(w)
    \/ Add122(w) \/ Add125(w) \/ Add128(w) \/ Add132(w) \/ Add135(w)
    \/ Save201(w) \/ Save208(w) \/ Save208w(w) \/ Save211(w) \/ Save212(w)
    \/ Load221(w) \/ Load225(w) \/ Load228(w)
    \/ Del237(w) \/ Del239(w) \/ Del246i(w) \/ Del246m(w)
    \/ Return(w)

StepOps == {"create", "save", "load", "delete"}

\* well-formed batches: chunk ids, rows and metadata of one length
BatchShapes ==
    {[nc |-> n, ne |-> n, nm |-> n, dimok |-> TRUE] : n \in 1..MaxBatch}

\* calls on the indices of two documents
MultiCreate(d) == nops < MaxMultiCalls /\ CreateIndex(d)

MultiAdd(d, sh) == nops < MaxMultiCalls /\ AddEmbeddings(d, sh)

MultiDelete(d) == nops < MaxMultiCalls /\ DeleteIndex(d)

NextMulti ==
    \/ \E d \in Docs : MultiCreate(d)
    \/ \E d \in Docs, sh \in BatchShapes : MultiAdd(d, sh)
    \/ \E d \in Docs : MultiDelete(d)

\* the add_embeddings calls of the two-document specification: one chunk, with
\* the three arguments of equal or unequal length, right or wrong dimension
FrameShapes == {sh \in AddShapes : sh.nc <= 1 /\ sh.ne <= 1 /\ sh.nm <= 1}

FrameCreate(d) == nops < MaxFrameCalls /\ CreateIndex(d)

FrameAdd(d, sh) == nops < MaxFrameCalls /\ AddEmbeddings(d, sh)

FrameSave(d) == nops < MaxFrameCalls /\ SaveIndex(d)

FrameLoad(d) == nops < MaxFrameCalls /\ LoadIndex(d)

FrameDelete(d) == nops < MaxFrameCalls /\ DeleteIndex(d)

\* every call of the manager, on either of two documents
NextFrame ==
    \/ \E d \in Docs : FrameCreate(d)
    \/ \E d \in Docs, sh \in FrameShapes : FrameAdd(d, sh)
    \/ \E d \in Docs : FrameSave(d)
    \/ \E d \in Docs : FrameLoad(d)
    \/ \E d \in Docs : FrameDelete(d)

NextCrash ==
    \/ \E op \in StepOps, d \in StepDocs : BeginCall("w1", op, d, MaxCrashCalls)
    \/ \E d \in StepDocs, n \in StepBatches : BeginAdd("w1", d, n, MaxCrashCalls)
    \/ Statement("w1")
    \/ Crash

NextConc ==
    \/ \E w \in Workers, op \in StepOps, d \in StepDocs : BeginCall(w, op, d, MaxConcCalls)
    \/ \E w \in Workers, d \in StepDocs, n \in StepBatches : BeginAdd(w, d, n, MaxConcCalls)
    \/ \E w \in Workers : Statement(w)

(***************************************************************************)
(* The request handlers of api/routes.py                                   *)
(***************************************************************************)
\* upload_document for a PDF of n chunks, lines 115-146: add_embeddings then
\* save_index on index_manager; an exception rolls the Document row back
UploadDocument(d, n) ==
    /\ rops < MaxRequests
    /\ documents[d] = "absent"
    /\ LET a == AddEmbeddingsOp(indices, metadata, disk, d,
                                ChunkIdsFrom(next_cid, n),
                                EmbeddingsFrom(next_cid, n, TRUE),
                                ChunkMetadataFrom(next_cid, n))
           r == IF a.raised THEN a ELSE SaveIndexOp(a.indices, a.metadata, a.disk, d)
       IN  /\ Apply(r)
           /\ documents' = IF a.raised THEN documents
                           ELSE [documents EXCEPT ![d] = "completed"]
           /\ saved' = IF ~a.raised /\ d \in DOMAIN a.indices
                       THEN [saved EXCEPT ![d] = @ \cup {<<a.indices[d], GetOrEmpty(a.metadata, d)>>}]
                       ELSE saved
           /\ last' = [op |-> IF a.raised THEN "add" ELSE "save", doc |-> d,
                       raised |-> r.raised, ret |-> r.ret,
                       nc |-> n, ne |-> n, nm |-> n, dimok |-> TRUE,
                       hadIndex |-> IF a.raised THEN d \in DOMAIN indices
                                    ELSE d \in DOMAIN a.indices,
                       hadFiles |-> HasFiles(disk, d),
                       changed  |-> r.indices # indices \/ r.metadata # metadata
                                       \/ r.disk # disk]
           /\ nops' = IF a.raised THEN nops + 1 ELSE nops + 2
    /\ next_cid' = next_cid + n
    /\ rops' = rops + 1
    /\ UNCHANGED <<rag_indices, rag_metadata, qlast>>
    /\ UNCHANGED outsideRoutes

\* query_document, lines 244-265, for a completed document: the load check on
\* index_manager, then rag_service.query, whose search (rag_service.py line
\* 108) is made on rag_service.index_manager
QueryDocument(d, q) ==
    /\ rops < MaxRequests
    /\ documents[d] = "completed"
    /\ LET must == d \notin DOMAIN indices
           l    == LoadIndexOp(indices, metadata, disk, d)
           pass == ~must \/ l.ret = "True"
           s    == SearchCall(rag_indices, rag_metadata, d, q, DefaultK)
       IN  /\ IF must
              THEN /\ Apply(l)
                   /\ last' = Call("load", d, l, NoShape)
                   /\ nops' = nops + 1
              ELSE UNCHANGED <<indices, metadata, disk, last, nops>>
           /\ qlast' = [doc |-> d, passed |-> pass, loaded |-> must /\ pass,
                        held |-> d \in DOMAIN rag_indices,
                        ret |-> IF pass THEN s.ret ELSE <<>>]
    /\ rops' = rops + 1
    /\ UNCHANGED <<next_cid, saved, rag_indices, rag_metadata, documents>>
    /\ UNCHANGED outsideRoutes

\* delete_document, lines 209-226: delete_index on index_manager, then the row
DeleteDocument(d) ==
    /\ rops < MaxRequests
    /\ documents[d] = "completed"
    /\ LET r == DeleteIndexOp(indices, metadata, disk, d)
       IN  /\ Apply(r)
           /\ last' = Call("delete", d, r, NoShape)
    /\ nops' = nops + 1
    /\ documents' = [documents EXCEPT ![d] = "deleted"]
    /\ rops' = rops + 1
    /\ UNCHANGED <<next_cid, saved, rag_indices, rag_metadata, qlast>>
    /\ UNCHANGED outsideRoutes

\* the server process starts again: routes.py lines 28-29 construct both
\* managers anew; the index directory and the Document rows stay
RestartServer ==
    /\ rops < MaxRequests
    /\ indices # EmptyMap
    /\ indices' = EmptyMap
    /\ metadata' = EmptyMap
    /\ rag_indices' = EmptyMap
    /\ rag_metadata' = EmptyMap
    /\ last' = [NoCall EXCEPT !.op = "new", !.changed = TRUE]
    /\ rops' = rops + 1
    /\ UNCHANGED <<disk, next_cid, nops, saved, documents, qlast>>
    /\ UNCHANGED outsideRoutes

NextRoutes ==
    \/ \E d \in Docs, n \in 1..MaxBatch : UploadDocument(d, n)
    \/ \E d \in Docs, q \in Queries : QueryDocument(d, q)
    \/ \E d \in Docs : DeleteDocument(d)
    \/ RestartServer

(***************************************************************************)
(* Specifications                                                          *)
(***************************************************************************)
InitChunk == ChunkCall /\ MgrIdle

SpecChunk == InitChunk /\ [][NextChunk]_vars

Spec == Init /\ [][Next]_vars

SpecCrash == Init /\ [][NextCrash]_vars

SpecConc == Init /\ [][NextConc]_vars

SpecMulti == Init /\ [][NextMulti]_vars

SpecGlobal == InitGlobal /\ [][NextGlobal]_vars

SpecFrame == Init /\ [][NextFrame]_vars

SpecRoutes == Init /\ [][NextRoutes]_vars

SpecSvc == Init /\ [][NextSvc]_vars

(***************************************************************************)
(* Properties of chunk_text                                                *)
(***************************************************************************)
ValidConfig ==
    /\ chunk_size > 0
    /\ 0 <= chunk_overlap /\ chunk_overlap < chunk_size
    /\ 0 < min_chunk_size /\ min_chunk_size <= chunk_size

ScenarioRun ==
    /\ chunk_size = DefaultChunkSize
    /\ chunk_overlap = DefaultChunkOverlap
    /\ min_chunk_size = DefaultMinChunkSize
    /\ cpc = "done"
    /\ Len(text) = ScenarioLen

\* C1: under a valid configuration every iteration of the window loop leaves
\* `start` strictly greater than it was when the iteration began (dropped
\* windows included), which is what makes the loop reach start >= len(text)
\* after finitely many iterations.
C1_StartStrictlyIncreases ==
    (ValidConfig /\ cpc = "loop" /\ prev_start >= 0) => start > prev_start

\* C2: a normalized text of 2400 characters chunked with chunk_size 1000,
\* chunk_overlap 200 and min_chunk_size 100 yields exactly three chunks,
\* starting within the 200-character lookahead of 0, 800 and 1600, all
\* non-empty and each overlapping its predecessor.
C2_ScenarioThreeChunks ==
    ScenarioRun =>
        /\ Len(chunks) = 3
        /\ \A i \in 1..3 :
              /\ chunks[i].start_char >= (i - 1) * (DefaultChunkSize - DefaultChunkOverlap)
              /\ chunks[i].start_char <= (i - 1) * (DefaultChunkSize - DefaultChunkOverlap) + LookAhead
              /\ Len(chunks[i].content) > 0
        /\ \A i \in 2..3 : chunks[i].start_char < chunks[i - 1].end_char

(***************************************************************************)
(* Properties of FAISSIndexManager, calls in sequence                      *)
(***************************************************************************)
\* the ordinals held in the similarity index of document d
Ordinals(ind, d) ==
    IF d \in DOMAIN ind THEN {ind[d].ids[i] : i \in 1..Len(ind[d].ids)} ELSE {}

NVectors(ind, d) == IF d \in DOMAIN ind THEN NTotal(ind[d]) ELSE 0

NEntries(meta, d) == Cardinality(DOMAIN GetOrEmpty(meta, d))

AddStep == last'.op = "add" /\ nops' = nops + 1

\* C3: for every document the ordinals in the similarity index are exactly
\* the keys of its metadata table, and distinct ordinals carry distinct
\* chunk ids.
C3_OrdinalsMatchMetadata ==
    \A d \in Docs :
        /\ Ordinals(indices, d) = DOMAIN GetOrEmpty(metadata, d)
        /\ \A o1, o2 \in DOMAIN GetOrEmpty(metadata, d) :
              o1 # o2 => metadata[d][o1].chunk_id # metadata[d][o2].chunk_id

\* C4: an add_embeddings call that raises leaves the set of documents with
\* an index, the metadata and get_index_stats of every document as they were.
C4_FailedAddChangesNothing ==
    [][(AddStep /\ last'.raised) =>
          /\ DOMAIN indices' = DOMAIN indices
          /\ metadata' = metadata
          /\ \A d \in Docs : GetIndexStats(indices', metadata', d)
                               = GetIndexStats(indices, metadata, d)]_vars

\* C5: an add_embeddings call whose three arguments are not of one length
\* raises and adds neither a vector nor a metadata entry.
C5_LengthMismatchRejected ==
    [][(AddStep /\ ~(last'.nc = last'.ne /\ last'.ne = last'.nm)) =>
          /\ last'.raised
          /\ NVectors(indices', last'.doc) = NVectors(indices, last'.doc)
          /\ NEntries(metadata', last'.doc) = NEntries(metadata, last'.doc)]_vars

SameSearch(ind1, meta1, ind2, meta2, d) ==
    \A q \in Queries, k \in 1..MaxK :
        Search(ind1, meta1, d, q, k) = Search(ind2, meta2, d, q, k)

\* C9: save_index(D) followed by load_index(D) in a fresh manager returns
\* True and restores the vectors, ordinals and metadata that were saved, so
\* that every search returns the same result sequence; and whenever
\* load_index returns True the manager holds a pair that a save_index wrote.
C9_RoundTrip ==
    /\ \A d \in Docs :
          (last.op = "save" /\ last.doc = d /\ last.hadIndex) =>
              LET r == LoadIndexOp(EmptyMap, EmptyMap, disk, d)
              IN  /\ r.ret = "True" /\ ~r.raised
                  /\ DOMAIN r.indices = {d} /\ DOMAIN r.metadata = {d}
                  /\ r.indices[d] = indices[d]
                  /\ r.metadata[d] = GetOrEmpty(metadata, d)
                  /\ SameSearch(r.indices, r.metadata, indices, metadata, d)
    /\ \A d \in Docs :
          (last.op = "load" /\ last.doc = d /\ last.ret = "True") =>
              \E p \in saved[d] :
                  /\ d \in DOMAIN indices /\ d \in DOMAIN metadata
                  /\ GetOrEmpty(indices, d) = p[1]
                  /\ GetOrEmpty(metadata, d) = p[2]
                  /\ SameSearch(indices, metadata, Put(EmptyMap, d, p[1]),
                                Put(EmptyMap, d, p[2]), d)

\* a load in a fresh manager that restored two vectors with their metadata
C9_Witness ==
    /\ last.op = "load" /\ last.ret = "True" /\ ~last.hadIndex
    /\ NVectors(indices, last.doc) >= 2
    /\ NEntries(metadata, last.doc) >= 2
    /\ \E q \in Queries : Len(Search(indices, metadata, last.doc, q, MaxK)) >= 2

DeleteStep == last'.op = "delete" /\ nops' = nops + 1

\* C10: delete_index raises nothing and leaves the document in neither
\* indices nor metadata and neither artifact on disk; a second delete_index
\* changes nothing; load_index after it returns False.
C10_DeleteIdempotent ==
    /\ [](last.op = "delete" =>
            /\ ~last.raised
            /\ last.doc \notin DOMAIN indices
            /\ last.doc \notin DOMAIN metadata
            /\ IndexFile(last.doc) \notin DOMAIN disk
            /\ MetaFile(last.doc) \notin DOMAIN disk)
    /\ [][(last.op = "delete" /\ DeleteStep /\ last'.doc = last.doc) =>
            /\ ~last'.raised
            /\ UNCHANGED <<indices, metadata, disk>>]_vars
    /\ [][(last.op = "delete" /\ last'.op = "load" /\ nops' = nops + 1
              /\ last'.doc = last.doc) =>
            /\ last'.ret = "False" /\ ~last'.raised
            /\ UNCHANGED <<indices, metadata, disk>>]_vars

\* a delete of a document that had an index in memory and both artifacts
C10_Witness ==
    /\ last.op = "delete" /\ last.hadIndex /\ last.hadFiles /\ last.changed
    /\ last.doc \notin DOMAIN indices
    /\ ~HasFiles(disk, last.doc)

(***************************************************************************)
(* Properties of FAISSIndexManager under crashes and concurrent workers    *)
(***************************************************************************)
Quiescent == \A w \in Workers : wpc[w] = "idle"

\* the manager after add_embeddings calls a and then b, made one after the
\* other on a manager that holds nothing
SerialAdds(a, b) ==
    LET r1 == AddEmbeddingsOp(EmptyMap, EmptyMap, EmptyMap, a.doc,
                              ChunkIdsFrom(a.first, a.n),
                              EmbeddingsFrom(a.first, a.n, TRUE),
                              ChunkMetadataFrom(a.first, a.n))
        r2 == AddEmbeddingsOp(r1.indices, r1.metadata, EmptyMap, b.doc,
                              ChunkIdsFrom(b.first, b.n),
                              EmbeddingsFrom(b.first, b.n, TRUE),
                              ChunkMetadataFrom(b.first, b.n))
    IN  <<r2.indices, r2.metadata>>

\* C6: two add_embeddings calls on one document by different workers leave
\* the manager as one of the two serial orders would: no ordinal is assigned
\* twice and there are as many vectors as metadata entries.
C6_ConcurrentAddsSerialize ==
    (/\ Quiescent
     /\ ~hist.others
     /\ Len(hist.adds) = 2
     /\ hist.adds[1].w # hist.adds[2].w
     /\ hist.adds[1].doc = hist.adds[2].doc) =>
        LET a == hist.adds[1]
            b == hist.adds[2]
            d == a.doc
        IN  /\ <<indices, metadata>> \in {SerialAdds(a, b), SerialAdds(b, a)}
            /\ Cardinality(Ordinals(indices, d)) = NVectors(indices, d)
            /\ NVectors(indices, d) = NEntries(metadata, d)

\* worker w leaves load_index in this step
LoadEnds(w) ==
    /\ wl[w].op = "load"
    /\ wpc[w] \in {"load221", "load225", "load228"}
    /\ wpc'[w] = "return"

\* the pair the manager holds for document d is the pair one completed
\* save_index call wrote
HoldsSavedPair(ind, meta, sv, d) ==
    /\ d \in DOMAIN ind
    /\ d \in DOMAIN meta
    /\ <<GetOrEmpty(ind, d), GetOrEmpty(meta, d)>> \in sv[d]

\* C7: whatever statement of save_index the process died at, a later
\* load_index either returns False or restores an index and a metadata
\* table that one completed save_index call wrote.
C7_LoadAfterCrash ==
    [][\A w \in Workers :
          LoadEnds(w) =>
              \/ wl'[w].ret = "False" /\ ~wl'[w].raised
              \/ /\ wl'[w].ret = "True"
                 /\ HoldsSavedPair(indices', metadata', saved', wl[w].doc)]_vars

\* C8: when a load_index that ran next to save_index, add_embeddings or
\* delete_index of the same document has replaced the in-memory index, the
\* manager holds the index and the metadata table of one completed save.
C8_ConcurrentLoadConsistent ==
    [][\A w \in Workers :
          (LoadEnds(w) /\ (wl'[w].ret = "True" \/ wpc[w] = "load228")) =>
              HoldsSavedPair(indices', metadata', saved', wl[w].doc)]_vars

(***************************************************************************)
(* Properties of load_index, search and create_index                       *)
(***************************************************************************)
LoadStep == last'.op = "load" /\ nops' = nops + 1

\* C11: load_index returns False, raises nothing and leaves the in-memory
\* index and metadata as they were when an artifact is missing (either one,
\* or both); when both are present it returns True and the document's index
\* and metadata table are the persisted pair, whatever was in memory before.
C11_LoadContract ==
    /\ [](\A d \in SpecDocs : \A f \in {IndexFile(d), MetaFile(d)} :
             LET r == LoadIndexOp(indices, metadata, Del(disk, f), d)
             IN  /\ r.ret = "False" /\ ~r.raised
                 /\ r.indices = indices /\ r.metadata = metadata)
    /\ [][LoadStep =>
            LET d == last'.doc
            IN  IF ~last'.hadFiles
                THEN /\ last'.ret = "False" /\ ~last'.raised
                     /\ UNCHANGED <<indices, metadata, disk>>
                ELSE /\ last'.ret = "True" /\ ~last'.raised
                     /\ DOMAIN indices' = DOMAIN indices \cup {d}
                     /\ DOMAIN metadata' = DOMAIN metadata \cup {d}
                     /\ <<indices'[d], metadata'[d]>> \in saved[d]
                     /\ WriteIndex(indices'[d]) = disk[IndexFile(d)]
                     /\ PickleDump(metadata'[d]) = disk[MetaFile(d)]
                     /\ UNCHANGED disk]_vars

\* a load that returned True over an in-memory state that differed from the
\* persisted pair
C11_Witness ==
    /\ last.op = "load" /\ last.ret = "True" /\ last.hadIndex /\ last.changed
    /\ <<indices[last.doc], metadata[last.doc]>> \in saved[last.doc]
\* C12: search on a document without an in-memory index fails, and the
\* caller can tell that outcome from the empty result list of a search on an
\* index that exists and holds no vectors.
C12_MissingIndexDistinguished ==
    \A d \in SpecDocs, q \in Queries, k \in 1..MaxK :
        d \notin DOMAIN indices =>
            LET missing == SearchCall(indices, metadata, d, q, k)
                created == CreateIndexOp(indices, metadata, disk, d)
                empty   == SearchCall(created.indices, created.metadata, d, q, k)
            IN  /\ missing.raised
                /\ ~empty.raised /\ empty.ret = <<>>
                /\ missing # empty

CreateStep == last'.op = "create" /\ nops' = nops + 1

\* C13: create_index on a document that has an index in memory is an error
\* and leaves the index and its metadata table as they were.
C13_CreateExistingRejected ==
    [][(CreateStep /\ last'.hadIndex) =>
          /\ last'.raised
          /\ UNCHANGED <<indices, metadata>>]_vars

\* the ordinals of the index of document d, in storage order
IdsOf(ind, d) == IF d \in DOMAIN ind THEN ind[d].ids ELSE <<>>

\* C14: an add_embeddings call that returns normally assigns the ordinals
\* n .. n+m-1, n the number of vectors in the index before the call and m
\* the batch size, so that no ordinal is ever assigned twice.
C14_OrdinalsContinueFromCount ==
    [][(AddStep /\ ~last'.raised) =>
          LET d == last'.doc
              n == NVectors(indices, d)
              m == last'.ne
          IN  /\ IdsOf(indices', d) = IdsOf(indices, d) \o [i \in 1..m |-> n + i - 1]
              /\ Cardinality(Ordinals(indices', d)) = NVectors(indices', d)]_vars
\* C15: search on an existing index returns at most k results in
\* non-increasing score order, results of equal score in ascending ordinal
\* order; every result belongs to an ordinal with a metadata entry and
\* carries that entry's chunk_id, content and page_number and the document id.
C15_SearchOrdered ==
    \A d \in DOMAIN indices, q \in Queries, k \in 1..MaxK :
        \A hits \in IndexSearchAny(indices[d], GenerateEmbedding(q), k) :
            LET doc_metadata == GetOrEmpty(metadata, d)
                found        == HitsWithMetadata(hits, doc_metadata)
                results      == BuildResults(hits, doc_metadata, d)
            IN  /\ Len(results) <= k
                /\ Len(results) = Len(found)
                /\ \A i \in 1..Len(results) :
                      /\ found[i].idx \in DOMAIN doc_metadata
                      /\ results[i].chunk_id = doc_metadata[found[i].idx].chunk_id
                      /\ results[i].content = doc_metadata[found[i].idx].content
                      /\ results[i].page_number = doc_metadata[found[i].idx].page_number
                      /\ results[i].document_id = d
                /\ \A i, j \in 1..Len(results) :
                      i < j =>
                          /\ results[i].score >= results[j].score
                          /\ results[i].score = results[j].score =>
                                found[i].idx <= found[j].idx

\* the hit list of the model's index.search is one of those FAISS may return
IndexSearchAdmissible ==
    \A d \in DOMAIN indices, q \in Queries, k \in 1..MaxK :
        IndexSearch(indices[d], GenerateEmbedding(q), k)
            \in IndexSearchAny(indices[d], GenerateEmbedding(q), k)
(***************************************************************************)
(* Properties of search_multiple_documents                                 *)
(***************************************************************************)
\* how many times x occurs in seq
Count(seq, x) == Cardinality({i \in 1..Len(seq) : seq[i] = x})

\* the id lists search_multiple_documents is called with
IdLists == SeqsOf(Docs, 1, 2)

\* C16: search_multiple_documents returns the first k elements of the
\* score-descending sort of the concatenated per-document results: at most
\* k results, sorted by score, each one of the per-document results, and
\* none of those left out scores higher than one returned; an id without an
\* in-memory index contributes nothing and raises nothing.
C16_MultiSearchTopK ==
    \A document_ids \in IdLists, q \in Queries, k \in 1..MaxK :
        \A all \in {AllResults(indices, metadata, document_ids, q, k)},
           res \in {SearchMultipleDocuments(indices, metadata, document_ids, q, k)},
           loaded \in {SelectSeq(document_ids, LAMBDA d : d \in DOMAIN indices)} :
            /\ Len(res) = Min(k, Len(all))
            /\ \A i, j \in 1..Len(res) : i < j => res[i].score >= res[j].score
            /\ \A i \in 1..Len(res) : Count(res, res[i]) <= Count(all, res[i])
            /\ \A a \in 1..Len(all) :
                  Count(res, all[a]) < Count(all, all[a]) =>
                      \A i \in 1..Len(res) : all[a].score <= res[i].score
            /\ res = SearchMultipleDocuments(indices, metadata, loaded, q, k)

\* both documents have vectors, and a query whose two best results come one
\* from each document while other per-document results are left out
C16_Witness ==
    /\ Docs \subseteq DOMAIN indices
    /\ \E q \in Queries :
          \E all \in {AllResults(indices, metadata, <<"A", "B">>, q, 2)},
             res \in {SearchMultipleDocuments(indices, metadata, <<"A", "B">>, q, 2)} :
              /\ Len(all) > 2
              /\ Len(res) = 2
              /\ res[1].document_id # res[2].document_id
              /\ res # PySlice(all, 0, 2)
(***************************************************************************)
(* Properties of GlobalIndexManager                                        *)
(***************************************************************************)
GlobalSearchStep == glast'.op = "search" /\ gops' = gops + 1

GlobalAddStep == glast'.op = "add" /\ gops' = gops + 1

\* C17: global_search in state Uninitialized or Untrained returns an empty
\* list, raises nothing and changes no field; only in state Trained does it
\* reach the query (where it sets nprobe).
C17_SearchBeforeTrained ==
    [][GlobalSearchStep =>
          IF Uninitialized(GlobalState) \/ Untrained(GlobalState)
          THEN /\ glast'.ret = <<>> /\ ~glast'.raised
               /\ UNCHANGED <<nlist, global_index, global_metadata, is_trained>>
          ELSE /\ global_index'.nprobe = Min(MaxNProbe, nlist)
               /\ UNCHANGED <<nlist, global_metadata, is_trained>>]_vars

\* a global_search made on an index that exists and is not trained
C17_Witness ==
    /\ glast.op = "search" /\ Untrained(glast.before)
    /\ glast.ret = <<>> /\ ~glast.raised
\* C18: once the global index is Trained it stays Trained over every
\* create_global_index, add_to_global_index and global_search call, and every
\* add_to_global_index made from then on inserts its whole batch.
C18_TrainedStaysTrained ==
    [][Trained(GlobalState) =>
          /\ Trained(GlobalState')
          /\ GlobalAddStep =>
                /\ ~glast'.raised
                /\ NTotal(global_index') = NTotal(global_index) + glast'.n
                /\ Cardinality(DOMAIN global_metadata')
                     = Cardinality(DOMAIN global_metadata) + glast'.n]_vars
\* C19: an add_to_global_index made while the index is not trained trains
\* it when the incoming batch together with the batches of the earlier
\* untrained attempts reaches nlist vectors, and then inserts its batch.
C19_CombinedBatchesTrain ==
    [][(GlobalAddStep /\ ~is_trained /\ offered' >= nlist) =>
          /\ Trained(GlobalState')
          /\ ~glast'.raised
          /\ NTotal(global_index') = glast'.n]_vars
\* C20: add_to_global_index with fewer than nlist vectors while the index is
\* not trained raises nothing and leaves global_metadata, the vector count of
\* the index and is_trained as they were.
C20_SmallUntrainedAddIsNoOp ==
    [][(GlobalAddStep /\ ~is_trained /\ glast'.n < nlist) =>
          /\ ~glast'.raised
          /\ global_metadata' = global_metadata
          /\ NTotal(global_index') = NTotal(global_index)
          /\ is_trained' = is_trained]_vars

C20_Witness ==
    /\ glast.op = "add" /\ ~glast.before.is_trained /\ glast.n < nlist
    /\ ~glast.raised /\ ~is_trained
    /\ global_index.exists /\ NTotal(global_index) = 0
    /\ global_metadata = glast.before.metadata
\* C21: with chunk_size > 0 the chunks of chunk_text are in strictly
\* ascending start_char order and carry the dense indices 0..N-1: the i-th
\* chunk has chunk_index i and starts after the one before it.
C21_AscendingDenseChunks ==
    (chunk_size > 0 /\ cpc \in {"loop", "done"}) =>
        /\ \A i \in 1..Len(chunks) : chunks[i].chunk_index = i - 1
        /\ \A i \in 1..(Len(chunks) - 1) :
              chunks[i + 1].start_char > chunks[i].start_char

C21_Witness ==
    /\ cpc = "done" /\ chunk_size > 0 /\ Len(chunks) >= 3
    /\ chunk_overlap >= chunk_size
\* C22: every chunk returned by chunk_text, the empty text and texts shorter
\* than min_chunk_size included, has 0 <= start_char < end_char <= len(text)
\* for the normalized text.
C22_ChunkRangeInsideText ==
    cpc = "done" =>
        \A i \in 1..Len(chunks) :
            /\ 0 <= chunks[i].start_char
            /\ chunks[i].start_char < chunks[i].end_char
            /\ chunks[i].end_char <= Len(text)
\* the text positions lying in the range of some chunk
Covered == {p \in 0..(Len(text) - 1) :
               \E i \in 1..Len(chunks) :
                   chunks[i].start_char <= p /\ p < chunks[i].end_char}

\* C23: when chunk_text returns on a text of at least min_chunk_size
\* characters under a valid configuration, the chunk ranges cover the text
\* except possibly a suffix shorter than min_chunk_size, and consecutive
\* chunks leave no gap between them.
C23_RangesCoverText ==
    (cpc = "done" /\ ValidConfig /\ Len(text) >= min_chunk_size) =>
        /\ \E m \in 0..Len(text) :
              /\ Covered = 0..(m - 1)
              /\ Len(text) - m < min_chunk_size
        /\ \A i \in 1..(Len(chunks) - 1) :
              chunks[i + 1].start_char <= chunks[i].end_char
\* C24: two consecutive chunks of chunk_text share at most chunk_overlap
\* characters: end_char[i] - start_char[i+1] is never above chunk_overlap.
C24_OverlapBounded ==
    cpc \in {"loop", "done"} =>
        \A i \in 1..(Len(chunks) - 1) :
            chunks[i].end_char - chunks[i + 1].start_char <= chunk_overlap

C24_Witness ==
    /\ cpc = "done" /\ Len(chunks) >= 2 /\ chunk_overlap > 0
    /\ \E i \in 1..(Len(chunks) - 1) :
          chunks[i].end_char - chunks[i + 1].start_char = chunk_overlap
\* a page table sorted by start_char whose first entry starts at 0
SortedPageTable(pages) ==
    /\ pages # <<>>
    /\ pages[1].start_char = 0
    /\ \A i \in 1..(Len(pages) - 1) : pages[i].start_char <= pages[i + 1].start_char

\* the entries of the table with the greatest start_char that is <= position
PageEntriesAt(position, pages) ==
    {j \in 1..Len(pages) :
        /\ pages[j].start_char <= position
        /\ \A h \in 1..Len(pages) :
              pages[h].start_char <= position => pages[h].start_char <= pages[j].start_char}

\* C25: with a page table sorted by start_char whose first entry starts at 0,
\* every chunk of the window loop carries the page_number of the entry with
\* the greatest start_char that is <= the chunk's start_char.
C25_PageOfGreatestStart ==
    (cpc \in {"loop", "done"} /\ Len(text) >= min_chunk_size /\ SortedPageTable(page_texts)) =>
        \A i \in 1..Len(chunks) :
            \E j \in PageEntriesAt(chunks[i].start_char, page_texts) :
                chunks[i].page_number = page_texts[j].page_number

C25_Witness ==
    /\ cpc = "done" /\ Len(text) >= min_chunk_size /\ Len(page_texts) = 3
    /\ \E i \in 1..Len(chunks) :
          chunks[i].start_char = page_texts[2].start_char /\ chunks[i].page_number = 2
    /\ \E i \in 1..Len(chunks) :
          chunks[i].start_char > page_texts[3].start_char /\ chunks[i].page_number = 3
    /\ \E i \in 1..Len(chunks) :
          chunks[i].start_char = 0 /\ chunks[i].page_number = 1
\* what the manager and the index directory hold for one document
DocView(ind, meta, dsk, b) ==
    [index    |-> [x \in (DOMAIN ind) \cap {b} |-> ind[x]],
     metadata |-> [x \in (DOMAIN meta) \cap {b} |-> meta[x]],
     files    |-> [f \in (DOMAIN dsk) \cap {IndexFile(b), MetaFile(b)} |-> dsk[f]]]

\* a call on document d has just been made
CallOn(d) == nops' = nops + 1 /\ last'.doc = d

\* C26: a create_index, add_embeddings, save_index, load_index or
\* delete_index call on one document, whether it succeeds or raises, leaves
\* the in-memory index, the metadata table and both files of every other
\* document as they were.
C26_OtherDocumentsUntouched ==
    [][\A d \in Docs : CallOn(d) =>
          \A b \in Docs \ {d} :
              DocView(indices', metadata', disk', b) = DocView(indices, metadata, disk, b)]_vars

C26_Witness ==
    /\ last.doc = "A" /\ last.changed
    /\ "B" \in DOMAIN indices /\ NTotal(indices["B"]) > 0
    /\ HasFiles(disk, "B")
\* C27: under a valid configuration chunk_text drops a window for its
\* trimmed length only when the window ends at len(text); a window that ends
\* before the end of the text is never dropped.
C27_OnlyFinalWindowDropped ==
    (ValidConfig /\ cpc \in {"loop", "done"}) =>
        \A w \in dropped : w[2] = Len(text)
\* C28: whenever is_trained is true, the structure held in global_index has
\* itself been trained and global_metadata describes exactly the vectors in
\* it: the ordinals of the table are the ordinals stored in the index.
C28_TrainedFlagMatchesIndex ==
    is_trained =>
        /\ global_index.exists
        /\ global_index.trained
        /\ DOMAIN global_metadata = {global_index.ids[i] : i \in 1..NTotal(global_index)}
\* C29: a query_document request for an ingested document whose load check
\* passes (the document is in index_manager.indices, or load_index returned
\* True) makes its similarity search on an index manager that holds the
\* document's index, so the search runs over the document's vectors and is
\* not answered with the empty result of a missing index.
C29_QuerySearchesLoadedIndex ==
    (qlast.doc # "none" /\ qlast.passed) => (qlast.held /\ qlast.ret # <<>>)
\* C30: under any interleaving of concurrent first uses of EmbeddingService
\* every thread obtains the same instance, the embedding model is loaded at
\* most once, and a loaded model is never reset to None by a construction.
C30_OneInstanceOneLoad ==
    /\ shist.created <= 1
    /\ shist.loads <= 1
    /\ shist.resets = 0

====
